---- MODULE Spec2Model ----
(***************************************************************************)
(* gparse: the symbol (GLL) layer of the parser-combinator engine, with    *)
(* the token parsers it is built on.  A SymbolParser run is a stack        *)
(* machine: generate() pops work items off the parse stack and executes    *)
(* them; every call made while one work item executes (wrapped             *)
(* transformers, raw transformers, continuations, the two forEach loops)   *)
(* is a frame of `calls`, the native call stack, executed in the order     *)
(* JavaScript executes it.  Closures are records of what they capture.     *)
(***************************************************************************)
EXTENDS Integers, Sequences, FiniteSets, TLC

\* Bounds of the explored inputs.
MaxLen == 3
MaxA == 5
MaxRerunLen == 1
MaxBreadth == 1
MaxTokenLen == 2

VARIABLES
    memo,          \* per SymbolParser instance: currentTarget and memotable
    tokenMemo,     \* per TokenParser instance: currentTarget and memotable
    chainParsers,  \* the SymbolParsers built by the invocations of chain's transformer
    backrefs,      \* per chain invocation: the backreference map
    parseStack,    \* generate(): the parse stack
    calls,         \* the native call stack while one work item executes
    results,       \* generate(): results
    resultsCount,  \* generate(): resultsCount
    phase,         \* where the driver is: running, suspended, done, fault, abandoned
    run,           \* the driver call in progress: parser, mode, target, number
    yielded,       \* the states the generator has yielded to its caller, in order
    returned,      \* the value run / asyncRun returned
    fault,         \* the exception that ended the run, "" when none
    breadth,       \* SymbolParser.MAX_AMBIGUITY_BREADTH
    fresh,         \* what run returned on a fresh instance of the same grammar
    invoked,       \* the raw transformers of token parsers (and, as parser 0, the
                   \* actions of token chains) executed, in order, with their input
    delivered      \* the calls of continuations by the memo entries of the symbol
                   \* parsers (entry, continuation, identity of the state) and of raw
                   \* transformers by generate() (parser, identity of the state), in order

vars == <<memo, tokenMemo, chainParsers, backrefs, parseStack, calls, results,
          resultsCount, phase, run, yielded, returned, fault, breadth, fresh, invoked,
          delivered>>

----------------------------------------------------------------------------
(* Semantic values and parse states *)

\* new NoSemantics(): the empty identity
NoSemantics == [identity |-> "", value |-> 0]

\* new StaticSemantics(identity, value)
StaticSemantics(identity, value) == [identity |-> identity, value |-> value]

\* the error semantics of the test suite
eof == StaticSemantics("EOF", 0)
match == StaticSemantics("match", 0)

RECURSIVE Join(_)
\* target as a JavaScript string (result.join('') for a list of tokens)
Join(chars) == IF chars = <<>> THEN "" ELSE Head(chars) \o Join(Tail(chars))

RECURSIVE JoinedLength(_)
\* result.join('').length
JoinedLength(result) ==
    IF result = <<>> THEN 0 ELSE Len(Head(result)) + JoinedLength(Tail(result))

\* the two RangeError checks of the ParseResult constructor
ResultRangeError(target, index, result) ==
    \/ index > Len(target)
    \/ JoinedLength(result) > index

\* the RangeError check of the ParseError constructor
ErrorRangeError(target, index) == index > Len(target)

\* new ParseResult(target, index, result, data)
ParseResult(target, index, result, data) ==
    [target |-> target, index |-> index, isError |-> FALSE, result |-> result, sem |-> data]

\* new ParseError(target, index, result, error)
ParseError(target, index, result, error) ==
    [target |-> target, index |-> index, isError |-> TRUE, result |-> result, sem |-> error]

\* constructors that accept every state
ThrowsNothing(state) == FALSE

\* the constructor of the state throws
Throws(state) ==
    IF state.isError THEN ErrorRangeError(state.target, state.index)
    ELSE ResultRangeError(state.target, state.index, state.result)

\* an identity that leaves the semantic value out
IdentityOfPosition(state) == Join(state.target) \o "_" \o ToString(state.index)

\* an identity that always ends with '_' and the identity of the semantic value
IdentityWithSemantics(state) ==
    Join(state.target) \o "_" \o ToString(state.index) \o "_" \o state.sem.identity

\* ParseResult.identity / ParseError.identity
Identity(state) ==
    Join(state.target) \o "_" \o ToString(state.index)
        \o (IF Len(state.sem.identity) > 0 THEN "_" \o state.sem.identity ELSE "")

\* updateParseResult(old, index, data, newResult?): newResult is <<>> when omitted;
\* an empty string is falsy and is not appended
updateParseResult(old, index, data, newResult) ==
    ParseResult(old.target, index,
                IF newResult # <<>> /\ newResult[1] # "" THEN old.result \o newResult
                ELSE old.result,
                data)

\* updateParseError(old, error)
updateParseError(old, error) == ParseError(old.target, old.index, old.result, error)

----------------------------------------------------------------------------
(* Token parsers *)

\* the semantic values the parsers of the grammars are given
ERROR == StaticSemantics("ERROR", 0)
RECOVERY == StaticSemantics("RECOVERY", 0)
onEmpty == StaticSemantics("onEmpty", 0)
onAllFail == StaticSemantics("onAllFail", 0)

\* the mdata of a map that leaves the data as it is: (state) => state.data
id == "id"

\* the mdata of a map that gives every result the same data:
\* (state) => new StaticSemantics('u', 0)
always == "always"

\* a function object given where a semantic value is expected: it has no identity
dataFromError == [callable |-> "dataFromError"]

\* an mdata that appends to the identity whatever it is given
mdataAppends(c, state) == [identity |-> state.sem.identity \o c, value |-> 0]

\* mdata of the grammars' map parsers: (state) => ({ identity: state.data.identity + c })
mdata(c, state) ==
    IF c = id THEN state.sem
    ELSE IF c = always THEN StaticSemantics("u", 0)
    ELSE [identity |-> state.sem.identity \o c, value |-> 0]

\* merror of the grammars' map parsers: (state) => state.error
merror(state) == state.sem

\* a TokenParser instance: what its raw transformer captures
TokenParser(kind, s, parsers, value, action) ==
    [kind |-> kind, s |-> s, EOFError |-> eof, matchError |-> match,
     parsers |-> parsers, value |-> value, action |-> action]

\* the token parser instances
TokenParsers ==
    <<TokenParser("str", <<"a">>, <<>>, NoSemantics, ""),         \*  1: a
      TokenParser("str", <<"a">>, <<>>, NoSemantics, ""),         \*  2: the str("a") of A
      TokenParser("str", <<"b">>, <<>>, NoSemantics, ""),         \*  3: b
      TokenParser("error", <<>>, <<>>, ERROR, ""),                \*  4: error(ERROR)
      TokenParser("recovery", <<>>, <<>>, RECOVERY, ""),          \*  5: recovery(RECOVERY)
      TokenParser("recovery", <<>>, <<>>, dataFromError, ""),     \*  6: recovery(dataFromError)
      TokenParser("until", <<>>, <<3>>, eof, ""),                 \*  7: until(b, eof)
      TokenParser("chain", <<>>, <<7, 3>>, NoSemantics, ""),      \*  8: chain([until(b), b])
      TokenParser("many", <<>>, <<1>>, NoSemantics, ""),          \*  9: many(a)
      TokenParser("many1", <<>>, <<1>>, onEmpty, ""),             \* 10: many1(a, onEmpty)
      TokenParser("chain", <<>>, <<3, 10>>, NoSemantics, ""),     \* 11: chain([b, many1(a)])
      TokenParser("map", <<>>, <<1>>, "x", ""),                   \* 12: map(a, identity + 'x')
      TokenParser("map", <<>>, <<3>>, "y", ""),                   \* 13: map(b, identity + 'y')
      TokenParser("optional", <<>>, <<1>>, NoSemantics, ""),      \* 14: optional(a)
      TokenParser("chain", <<>>, <<12, 13, 14>>, NoSemantics, "action"),  \* 15
      TokenParser("chain", <<>>, <<1, 5, 3>>, NoSemantics, ""),   \* 16: chain([a, recovery, b])
      TokenParser("chain", <<>>, <<1, 3>>, NoSemantics, ""),      \* 17: chain([a, b])
      TokenParser("chain", <<>>, <<12, 13>>, NoSemantics, "action"),      \* 18
      TokenParser("chain", <<>>, <<1, 3, 5>>, NoSemantics, "action"),     \* 19
      [TokenParser("str", <<"a">>, <<>>, NoSemantics, "")          \* 20: str("a") whose
          EXCEPT !.EOFError = NoSemantics, !.matchError = NoSemantics],   \* errors are NoSemantics
      TokenParser("many", <<>>, <<14>>, NoSemantics, ""),         \* 21: many(optional(a))
      TokenParser("choice", <<>>, <<17, 1, 3>>, onAllFail, ""),   \* 22: choice([chain([a, b]), a, b])
      TokenParser("sideEffect", <<>>, <<>>, NoSemantics, ""),     \* 23: sideEffect(fn)
      TokenParser("chain", <<>>, <<23, 23, 1, 23>>, NoSemantics, ""), \* 24: chain([fn, fn, a, fn])
      TokenParser("map", <<>>, <<22>>, id, ""),                   \* 25: map(choice, id, id)
      TokenParser("str", <<"a", "b">>, <<>>, NoSemantics, ""),    \* 26: str("ab")
      TokenParser("chain", <<>>, <<1, 3, 14, 3>>, NoSemantics, ""),   \* 27: chain([a, b, optional(a), b])
      TokenParser("chain", <<>>, <<26, 14>>, NoSemantics, ""),    \* 28: chain([str("ab"), optional(a)])
      TokenParser("choice", <<>>, <<27, 28>>, onAllFail, ""),     \* 29: choice([27, 28])
      TokenParser("str", <<>>, <<>>, NoSemantics, "")>>           \* 30: str("")

\* target.slice(index).startsWith(s)
StartsWith(target, index, s) ==
    /\ index + Len(s) <= Len(target)
    /\ SubSeq(target, index + 1, index + Len(s)) = s

\* the raw transformer of str(s, EOFError, matchError)
str(p, state) ==
    IF state.isError THEN state
    ELSE IF state.index >= Len(state.target) THEN updateParseError(state, p.EOFError)
    ELSE IF ~StartsWith(state.target, state.index, p.s) THEN updateParseError(state, p.matchError)
    ELSE updateParseResult(state, state.index + Len(p.s), state.sem, <<Join(p.s)>>)

\* the raw transformer of error(error)
error(p, state) ==
    IF state.isError THEN state ELSE updateParseError(state, p.value)

\* a recovery that recovers nothing
recoveryNothing(p, state) == state

\* the raw transformer of recovery(data)
recovery(p, state) ==
    IF ~state.isError THEN state ELSE updateParseResult(state, state.index, p.value, <<>>)

EmptyMap == [key \in {} |-> 0]

\* a target change that keeps the memotable
FlushNothing(m, target) == [m EXCEPT !.currentTarget = target]

\* a flush at every call
FlushEvery(m, target) == [currentTarget |-> target, memotable |-> EmptyMap]

\* the target-change flush of an instance (either layer)
Flush(m, target) ==
    IF target # m.currentTarget
    THEN [currentTarget |-> target, memotable |-> EmptyMap]
    ELSE m

\* m with key bound to value
MapSet(m, key, value) ==
    [k \in DOMAIN m \cup {key} |-> IF k = key THEN value ELSE m[k]]

\* what a call of a token transformer leaves: the state it returned, the memo
\* tables and the raw transformers executed (tk), and the exception it threw
Outcome(out, tk) == [out |-> out, tk |-> tk, fault |-> ""]

Fault(what, tk) ==
    [out |-> ParseResult(<<>>, 0, <<>>, NoSemantics), tk |-> tk, fault |-> what]

\* the call never returns: its loop has no exit
NeverReturns == "never returns"

\* the call returns a state it constructed, unless the constructor threw
New(out, tk) == IF Throws(out) THEN Fault("RangeError", tk) ELSE Outcome(out, tk)

\* state.identity throws: the semantic value has no identity to take the length of
IdentityThrows(state) == "identity" \notin DOMAIN state.sem

\* what reading a property that is not there gives
Undefined == [undefined |-> TRUE]

RECURSIVE Transform(_, _, _)
RECURSIVE ManyLoop(_, _, _)
RECURSIVE UntilLoop(_, _, _, _)
RECURSIVE ChainFrom(_, _, _, _, _)
RECURSIVE ChoiceFrom(_, _, _, _)
RECURSIVE ManyLoopToError(_, _, _)

\* an optional that returns what its parser returns
optionalNot(tk, p, state) == Transform(tk, p.parsers[1], state)

\* the raw transformer of optional(parser)
optional(tk, p, state) ==
    IF state.isError THEN Outcome(state, tk)
    ELSE LET nextState == Transform(tk, p.parsers[1], state)
         IN  IF nextState.fault = "" /\ nextState.out.isError
             THEN Outcome(state, nextState.tk)
             ELSE nextState

\* a many that applies its parser once
ManyLoopOnce(tk, parser, nextState) ==
    LET output == Transform(tk, parser, nextState)
    IN  IF output.fault # "" \/ ~output.out.isError THEN output
        ELSE Outcome(nextState, output.tk)

\* a many that stops only when its parser fails
ManyLoopToError(tk, parser, nextState) ==
    LET output == Transform(tk, parser, nextState)
    IN  IF output.fault # "" THEN output
        ELSE IF output.out.isError THEN Outcome(nextState, output.tk)
        ELSE IF output.out = nextState THEN Fault(NeverReturns, output.tk)
        ELSE ManyLoopToError(output.tk, parser, output.out)

\* many: the while (true) loop from nextState. When parser returns nextState
\* itself before the end of the target, the next iteration calls parser with
\* the same state, parser answers it from its memotable, and so on for ever
ManyLoop(tk, parser, nextState) ==
    LET output == Transform(tk, parser, nextState)
    IN  IF output.fault # "" THEN output
        ELSE IF output.out.isError THEN Outcome(nextState, output.tk)
        ELSE IF output.out.index >= Len(output.out.target) THEN output
        ELSE IF output.out = nextState THEN Fault(NeverReturns, output.tk)
        ELSE ManyLoop(output.tk, parser, output.out)

\* the raw transformer of many(parser)
many(tk, p, state) ==
    IF state.isError THEN Outcome(state, tk) ELSE ManyLoop(tk, p.parsers[1], state)

\* the raw transformer of many1(parser, matchError); many(parser) is a new
\* instance at every call, so its transformer always executes its raw transformer
many1(tk, p, state) ==
    IF state.isError THEN Outcome(state, tk)
    ELSE LET nextState == IF IdentityThrows(state) THEN Fault("TypeError", tk)
                          ELSE many(tk, p, state)
         IN  IF nextState.fault # "" THEN nextState
             ELSE IF ~nextState.out.isError /\ Len(nextState.out.result) = 0
             THEN New(updateParseError(state, p.value), nextState.tk)
             ELSE nextState

\* until: the while (true) loop from nextState, and what follows it
UntilLoop(tk, p, nextState, start) ==
    LET output == Transform(tk, p.parsers[1], nextState)
        result == Join(SubSeq(nextState.target, start + 1, nextState.index))
        advanced == updateParseResult(nextState, nextState.index + 1, nextState.sem, <<>>)
    IN  IF output.fault # "" THEN output
        ELSE IF ~output.out.isError
        THEN New(updateParseResult(nextState, nextState.index, nextState.sem, <<result>>),
                 output.tk)
        ELSE IF nextState.index >= Len(nextState.target)
        THEN New(updateParseError(nextState, p.value), output.tk)
        ELSE IF Throws(advanced) THEN Fault("RangeError", output.tk)
        ELSE UntilLoop(output.tk, p, advanced, start)

\* the raw transformer of until(terminator, EOFError)
until(tk, p, state) ==
    IF state.isError THEN Outcome(state, tk) ELSE UntilLoop(tk, p, state, state.index)

\* choice: the for loop from parser i (from 1), and what follows it
ChoiceFrom(tk, p, i, state) ==
    IF i > Len(p.parsers) THEN New(updateParseError(state, p.value), tk)
    ELSE LET output == Transform(tk, p.parsers[i], state)
         IN  IF output.fault # "" \/ ~output.out.isError THEN output
             ELSE ChoiceFrom(output.tk, p, i + 1, state)

\* the raw transformer of choice(parsers, matchError)
choice(tk, p, state) ==
    IF state.isError THEN Outcome(state, tk) ELSE ChoiceFrom(tk, p, 1, state)

\* the raw transformer of sideEffect(fn): fn(state) is the execution logged for
\* this parser
sideEffect(tk, p, state) == Outcome(state, tk)

\* the raw transformer of map(parser, mdata, merror), token layer
map(tk, p, state) ==
    LET nextState == Transform(tk, p.parsers[1], state)
    IN  IF nextState.fault # "" THEN nextState
        ELSE IF nextState.out.isError
        THEN New(updateParseError(nextState.out, merror(nextState.out)), nextState.tk)
        ELSE New(updateParseResult(nextState.out, nextState.out.index,
                                   mdata(p.value, nextState.out), <<>>), nextState.tk)

RECURSIVE BackrefData(_, _, _)
\* chain's action parser: data[0 .. i - 1] read back from searchState through
\* the backreferences; the data of an error state is undefined, and reading the
\* data of no state throws
BackrefData(refs, searchState, i) ==
    IF i = 0 THEN [data |-> <<>>, fault |-> ""]
    ELSE IF searchState = Undefined THEN [data |-> <<>>, fault |-> "TypeError"]
    ELSE LET key == Identity(searchState)
             before == BackrefData(refs,
                                   IF key \in DOMAIN refs THEN refs[key] ELSE Undefined,
                                   i - 1)
         IN  [data |-> Append(before.data,
                              IF searchState.isError THEN Undefined ELSE searchState.sem),
              fault |-> before.fault]

RECURSIVE JoinIdentities(_)
\* the identities of a data vector, in order
JoinIdentities(data) ==
    IF data = <<>> THEN ""
    ELSE (IF Head(data) = Undefined THEN "undefined" ELSE Head(data).identity)
         \o (IF Len(data) > 1 THEN "," ELSE "") \o JoinIdentities(Tail(data))

\* the action of the grammars' chains: (data) => a value that records data in order
action(data) == [identity |-> JoinIdentities(data), value |-> data]

\* the raw transformer of the parser chain builds last when it has an action
ChainAction(tk, p, state, refs) ==
    IF state.isError THEN Outcome(state, tk)
    ELSE LET read == BackrefData(refs, state, Len(p.parsers))
         IN  IF read.fault # "" THEN Fault(read.fault, tk)
             ELSE New(updateParseResult(state, state.index, action(read.data), <<>>),
                      [tk EXCEPT !.invoked = Append(@, <<0, JoinIdentities(read.data)>>)])

\* chain, token layer: the parsers it builds are new at every call, so each
\* executes its raw transformer: step i (from 1) on state, then the steps after it
ChainFrom(tk, p, i, state, refs) ==
    LET n == Len(p.parsers)
        nextState == Transform(tk, p.parsers[i], state)
        set == p.action # "" /\ ~nextState.out.isError
    IN  IF IdentityThrows(state) THEN Fault("TypeError", tk)
        ELSE IF i > n THEN ChainAction(tk, p, state, refs)
        ELSE IF i = n /\ p.action = "" THEN nextState
        ELSE IF nextState.fault # "" THEN nextState
        ELSE IF set /\ IdentityThrows(nextState.out) THEN Fault("TypeError", nextState.tk)
        ELSE ChainFrom(nextState.tk, p, i + 1, nextState.out,
                       IF set THEN MapSet(refs, Identity(nextState.out), state) ELSE refs)

\* the raw transformer of chain(parsers, action?), token layer
chainTokens(tk, p, state) == ChainFrom(tk, p, 1, state, EmptyMap)

\* the raw transformer of token parser t
TokenRaw(tk, t, state) ==
    LET p == TokenParsers[t]
    IN  CASE p.kind = "str" -> New(str(p, state), tk)
          [] p.kind = "error" -> New(error(p, state), tk)
          [] p.kind = "recovery" -> New(recovery(p, state), tk)
          [] p.kind = "optional" -> optional(tk, p, state)
          [] p.kind = "many" -> many(tk, p, state)
          [] p.kind = "many1" -> many1(tk, p, state)
          [] p.kind = "until" -> until(tk, p, state)
          [] p.kind = "map" -> map(tk, p, state)
          [] p.kind = "chain" -> chainTokens(tk, p, state)
          [] p.kind = "choice" -> choice(tk, p, state)
          [] p.kind = "sideEffect" -> sideEffect(tk, p, state)

\* a raw transformer that is executed again on a memoised identity
MemoisedNever(memotable, key) == key \in {}

\* memotable.get(state.identity) !== undefined
Memoised(memotable, key) == key \in DOMAIN memotable

\* TokenParser.transformer (the wrapped transformer) of token parser t
Transform(tk, t, state) ==
    LET m == Flush(tk.memo[t], state.target)
        flushed == [tk EXCEPT !.memo[t] = m]
    IN  IF IdentityThrows(state) THEN Fault("TypeError", flushed)
        ELSE LET key == Identity(state)
                 raw == TokenRaw([flushed EXCEPT !.invoked = Append(@, <<t, key>>)],
                                 t, state)
             IN  IF Memoised(m.memotable, key)
                 THEN Outcome(m.memotable[key], flushed)
                 ELSE IF raw.fault # "" THEN raw
                 ELSE [raw EXCEPT !.tk.memo[t].memotable = MapSet(@, key, raw.out)]



----------------------------------------------------------------------------
(* The grammars: the SymbolParser instances the test suite constructs *)

Node(kind, parsers, token, c) ==
    [kind |-> kind, parsers |-> parsers, token |-> token, mdata |-> c,
     action |-> "", chain |-> 0, i |-> 0, nextChain |-> 0, invocation |-> 0]

\*  L = lazy(() => alternatives([chain([L, toSymbol(a)]), toSymbol(a)]))
\*  R = lazy(() => alternatives([chain([toSymbol(a), R]), toSymbol(a)]))
\*  E = lazy(() => alternatives([chain([empty, L, toSymbol(a)]), toSymbol(a)]))
\*  A = map(toSymbol(str("a")), identity + 'a', state.error)
\*  S = lazy(() => alternatives([map(chain([S, A, S]), identity + '+', state.error), A]))
\*  N = lazy(() => chain([N, toSymbol(a)])), a recursive rule without a base case
\*  G = alternatives([toSymbol(a), chain([toSymbol(b), toSymbol(error(ERROR))])])
\*  GR = chain([G, toSymbol(recovery(RECOVERY))])
\*  OPT = alternatives([toSymbol(a), empty]), and the same with the alternatives
\*  exchanged and with a str("a") whose errors are NoSemantics
\*  U = lazy(() => alternatives([map(U, always, state.error), toSymbol(a)])), a unit cycle
\*  X = lazy(() => alternatives([chain([X, X]), empty])), a cyclic rule of empty matches
\*  P = lazy(() => alternatives([chain([Q, P]), toSymbol(a)])) with
\*  Q = lazy(() => alternatives([chain([P, toSymbol(a)]), empty])), recursive through each other
\*  toSymbol(p) for every token parser p
\*  map(p, id, id) for p one of L, G, GR, OPT, toSymbol(chain([a, b])), toSymbol(choice)
Grammar ==
    <<Node("lazy", <<2>>, 0, ""),            \*  1: L
      Node("alternatives", <<3, 5>>, 0, ""),
      Node("chain", <<1, 4>>, 0, ""),
      Node("toSymbol", <<>>, 1, ""),
      Node("toSymbol", <<>>, 1, ""),
      Node("lazy", <<7>>, 0, ""),            \*  6: R
      Node("alternatives", <<8, 10>>, 0, ""),
      Node("chain", <<9, 6>>, 0, ""),
      Node("toSymbol", <<>>, 1, ""),
      Node("toSymbol", <<>>, 1, ""),
      Node("lazy", <<12>>, 0, ""),           \* 11: E
      Node("alternatives", <<13, 16>>, 0, ""),
      Node("chain", <<14, 1, 15>>, 0, ""),
      Node("empty", <<>>, 0, ""),
      Node("toSymbol", <<>>, 1, ""),
      Node("toSymbol", <<>>, 1, ""),
      Node("lazy", <<18>>, 0, ""),           \* 17: S
      Node("alternatives", <<19, 21>>, 0, ""),
      Node("map", <<20>>, 0, "+"),
      Node("chain", <<17, 21, 17>>, 0, ""),
      Node("map", <<22>>, 0, "a"),           \* 21: A
      Node("toSymbol", <<>>, 2, ""),
      Node("lazy", <<24>>, 0, ""),           \* 23: N
      Node("chain", <<23, 25>>, 0, ""),
      Node("toSymbol", <<>>, 1, ""),
      Node("alternatives", <<27, 28>>, 0, ""),   \* 26: G
      Node("toSymbol", <<>>, 1, ""),
      Node("chain", <<29, 30>>, 0, ""),
      Node("toSymbol", <<>>, 3, ""),
      Node("toSymbol", <<>>, 4, ""),
      Node("chain", <<26, 32>>, 0, ""),          \* 31: GR
      Node("toSymbol", <<>>, 5, ""),
      Node("alternatives", <<34, 14>>, 0, ""),   \* 33: OPT
      Node("toSymbol", <<>>, 1, ""),
      Node("alternatives", <<14, 36>>, 0, ""),   \* 35: alternatives([empty, toSymbol(a)])
      Node("toSymbol", <<>>, 1, ""),
      Node("alternatives", <<38, 14>>, 0, ""),   \* 37: OPT with the str of NoSemantics errors
      Node("toSymbol", <<>>, 20, ""),
      Node("alternatives", <<14, 40>>, 0, ""),   \* 39: the same, empty first
      Node("toSymbol", <<>>, 20, "")>>
    \o [t \in 1..Len(TokenParsers) |-> Node("toSymbol", <<>>, t, "")]
    \o <<Node("map", <<1>>, 0, id),         \* map(L, id, id)
         Node("map", <<26>>, 0, id),        \* map(G, id, id)
         Node("map", <<31>>, 0, id),        \* map(GR, id, id)
         Node("map", <<33>>, 0, id),        \* map(OPT, id, id)
         Node("map", <<40 + 17>>, 0, id),   \* map(toSymbol(chain([a, b])), id, id)
         Node("map", <<40 + 22>>, 0, id),   \* map(toSymbol(choice), id, id)
         Node("lazy", <<78>>, 0, ""),       \* 77: U
         Node("alternatives", <<79, 80>>, 0, ""),
         Node("map", <<77>>, 0, always),
         Node("toSymbol", <<>>, 1, ""),
         Node("lazy", <<82>>, 0, ""),       \* 81: X
         Node("alternatives", <<83, 84>>, 0, ""),
         Node("chain", <<81, 81>>, 0, ""),
         Node("empty", <<>>, 0, ""),
         Node("lazy", <<86>>, 0, ""),       \* 85: P
         Node("alternatives", <<87, 89>>, 0, ""),
         Node("chain", <<88, 85>>, 0, ""),
         Node("lazy", <<90>>, 0, ""),       \* 88: Q
         Node("toSymbol", <<>>, 1, ""),
         Node("alternatives", <<91, 92>>, 0, ""),
         Node("chain", <<85, 89>>, 0, ""),
         Node("empty", <<>>, 0, "")>>

L == 1
R == 6
E == 11
S == 17
N == 23
U == 77
X == 81
P == 85
G == 26
GR == 31
OPT == 33

\* alternatives([p, empty]) and alternatives([empty, p]) for the same kind of p
Exchanged(parser) ==
    CASE parser = 33 -> 35
      [] parser = 35 -> 33
      [] parser = 37 -> 39
      [] parser = 39 -> 37

\* SymbolParser.toSymbol(p) for token parser t
toSymbol(t) == 40 + t

\* the parsers of the grammars that a map of the grammars is given
Unmapped == {Grammar[m].parsers[1] : m \in {n \in 1..Len(Grammar) : Grammar[n].kind = "map"}}

\* a map(parser, mdata, merror) of the grammars
MapOf(parser) == CHOOSE m \in 1..Len(Grammar) : Grammar[m] = Node("map", <<parser>>, 0, Grammar[m].mdata)

\* the parser with reference p: one of the grammar, or one built by a chain invocation
Parser(p) == IF p <= Len(Grammar) THEN Grammar[p] ELSE chainParsers[p - Len(Grammar)]

----------------------------------------------------------------------------
(* Closures: continuations, work items, call frames *)

NoState == ParseResult(<<>>, 0, <<>>, NoSemantics)

Continuation(kind, parser, key, state, nextChain, k) ==
    [kind |-> kind, parser |-> parser, key |-> key, state |-> state,
     nextChain |-> nextChain, k |-> k]

\* generate(): function (state) { results.push(state) }
Collect == Continuation("collect", 0, "", NoState, 0, <<>>)

\* the same of call number n of generate(), where two calls are in progress:
\* the results it pushes to are those of that call
CollectOf(n) == Continuation("collect", n, "", NoState, 0, <<>>)

\* the continuation the wrapped transformer pushes with its work item: it
\* captures self and state
Publisher(parser, state) == Continuation("publisher", parser, Identity(state), state, 0, <<>>)

\* chain: function (nextState) { backrefs.set(..); nextChain.transformer(nextState, continuation, parseStack) }
ChainContinuation(step, state, k) == Continuation("chain", step, "", state, Parser(step).nextChain, <<k>>)

\* map: function (nextState) { continuation(update...(nextState, ...)) }
MapContinuation(parser, k) == Continuation("map", parser, "", NoState, 0, <<k>>)

Frame(op, parser, state, k, key, pos, len) ==
    [op |-> op, parser |-> parser, state |-> state, continuation |-> k,
     key |-> key, pos |-> pos, len |-> len]

\* parser.transformer(state, continuation, parseStack)
CallTransformer(parser, state, k) == Frame("transformer", parser, state, k, "", 0, 0)

\* the raw transformer given to parser's constructor, called by generate()
CallRaw(parser, state, k) == Frame("raw", parser, state, k, "", 0, 0)

\* continuation(state)
CallContinuation(k, state) == Frame("continuation", 0, state, k, "", 0, 0)

\* a call in progress, and the frame executing
Executing(op) == calls # <<>> /\ Head(calls).op = op

ExecutingRaw(kind) == Executing("raw") /\ Parser(Head(calls).parser).kind = kind

ExecutingContinuation(kind) ==
    Executing("continuation") /\ Head(calls).continuation.kind = kind

\* the frame returns, having made the calls `made` (in order)
Return(made) == calls' = made \o Tail(calls)

\* an exception unwinds the native stack and leaves generate()
Throw(what) ==
    /\ calls' = <<>>
    /\ phase' = "fault"
    /\ fault' = what

----------------------------------------------------------------------------
(* SymbolParser: the wrapped transformer and the publisher *)

\* a fresh memo entry; state is what the entry's publisher captures
Entry(state, k) == [state |-> state, results |-> <<>>, continuations |-> <<k>>]

\* results.get(identity) !== undefined, for the results of one entry
Stored(entryResults, identity) ==
    \E n \in 1..Len(entryResults) : Identity(entryResults[n]) = identity

\* the truthiness of a JavaScript array: every array is truthy, the empty one too
Truthy(array) == Len(array) >= 0

\* the enqueue guard: if (parseStack.filter((item) => item[0] === transformer &&
\* item[1].identity === state.identity))
EnqueueGuard(stack, parser, state) ==
    Truthy(SelectSeq(stack, LAMBDA item :
               ~item.wrapped /\ item.parser = parser
               /\ Identity(item.state) = Identity(state)))

\* the item the wrapped transformer pushes
WorkItem(wrapped, parser, state, k) ==
    [wrapped |-> wrapped, parser |-> parser, state |-> state, continuation |-> k]

\* a hit that leaves the continuation unsubscribed
SubscribedNot(continuations, k) == SubSeq(continuations \o <<k>>, 1, Len(continuations))

\* memotable.get(state.identity).continuations.push(continuation)
Subscribed(continuations, k) == Append(continuations, k)

\* continuation(result), called by the entry key of parser
Delivery(parser, key, continuation, result) ==
    [parser |-> parser, key |-> key, continuation |-> continuation,
     result |-> Identity(result)]

\* SymbolParser.transformer (the wrapped transformer)
SymbolTransformer ==
    /\ Executing("transformer")
    /\ LET f == Head(calls)
           key == Identity(f.state)
           m == Flush(memo[f.parser], f.state.target)
       IN  IF key \in DOMAIN m.memotable
           THEN /\ memo' = [memo EXCEPT ![f.parser] =
                       [m EXCEPT !.memotable[key].continuations =
                                    Subscribed(@, f.continuation)]]
                /\ Return(<<Frame("replay", f.parser, f.state, f.continuation, key, 1, 0)>>)
                /\ UNCHANGED parseStack
           ELSE /\ memo' = [memo EXCEPT ![f.parser] =
                       [m EXCEPT !.memotable = MapSet(@, key, Entry(f.state, f.continuation))]]
                /\ parseStack' =
                       IF EnqueueGuard(parseStack, f.parser, f.state)
                       THEN Append(parseStack,
                                WorkItem(FALSE, f.parser, f.state, Publisher(f.parser, f.state)))
                       ELSE parseStack
                /\ Return(<<>>)
    /\ UNCHANGED <<tokenMemo, chainParsers, backrefs, results, resultsCount, phase, run,
                   yielded, returned, fault, breadth, fresh, invoked,
                   delivered>>

\* results.forEach((result) => continuation(result)): a Map's forEach also visits
\* the entries added while it runs
ReplayResults ==
    /\ Executing("replay")
    /\ LET f == Head(calls)
           table == memo[f.parser].memotable
           stored == IF f.key \in DOMAIN table THEN table[f.key].results ELSE <<>>
       IN  IF f.pos <= Len(stored)
           THEN /\ Return(<<CallContinuation(f.continuation, stored[f.pos]),
                            [f EXCEPT !.pos = @ + 1]>>)
                /\ delivered' = Append(delivered, Delivery(f.parser, f.key, f.continuation,
                                                           stored[f.pos]))
           ELSE /\ Return(<<>>)
                /\ UNCHANGED delivered
    /\ UNCHANGED <<memo, tokenMemo, chainParsers, backrefs, parseStack, results,
                   resultsCount, phase, run, yielded, returned, fault, breadth, fresh, invoked>>

\* the results of an entry that reached the end of the target
FullLength(entryResults) ==
    SelectSeq(entryResults, LAMBDA r : r.index = Len(r.target))

\* the publisher's guard: MAX_AMBIGUITY_BREADTH !== Infinity && count > MAX_AMBIGUITY_BREADTH
BreadthExceeded(limit, entryResults) ==
    limit.finite /\ Len(FullLength(entryResults)) > limit.max

\* a publisher that stores and publishes every state it receives
PublisherStoresAll(entryResults, resultState) == Len(entryResults) >= 0

\* the publisher stores resultState: no result of that identity is stored yet
PublisherStores(entryResults, resultState) ==
    ~Stored(entryResults, Identity(resultState))

\* the publisher: function (resultState) pushed with the work item
Publish ==
    /\ ExecutingContinuation("publisher")
    /\ LET f == Head(calls)
           k == f.continuation
           table == memo[k.parser].memotable
       IN  IF k.key \notin DOMAIN table
           THEN /\ Throw("TypeError")
                /\ UNCHANGED memo
           ELSE IF BreadthExceeded(breadth, table[k.key].results)
           THEN /\ Throw("breadth")
                /\ UNCHANGED memo
           ELSE IF PublisherStores(table[k.key].results, f.state)
           THEN /\ memo' = [memo EXCEPT ![k.parser].memotable[k.key].results =
                                Append(@, f.state)]
                /\ Return(<<Frame("publish", k.parser, f.state, k, k.key, 1,
                                  Len(table[k.key].continuations))>>)
                /\ UNCHANGED <<phase, fault>>
           ELSE /\ Return(<<>>)
                /\ UNCHANGED <<memo, phase, fault>>
    /\ UNCHANGED <<tokenMemo, chainParsers, backrefs, parseStack, results, resultsCount,
                   run, yielded, returned, breadth, fresh, invoked, delivered>>

\* continuations.forEach((continuation) => continuation(resultState)): an Array's
\* forEach visits the elements that were there when it started
PublishToContinuations ==
    /\ Executing("publish")
    /\ LET f == Head(calls)
           table == memo[f.parser].memotable
           subscribed == IF f.key \in DOMAIN table THEN table[f.key].continuations ELSE <<>>
       IN  IF f.pos <= f.len /\ f.pos <= Len(subscribed)
           THEN /\ Return(<<CallContinuation(subscribed[f.pos], f.state),
                            [f EXCEPT !.pos = @ + 1]>>)
                /\ delivered' = Append(delivered, Delivery(f.parser, f.key, subscribed[f.pos],
                                                           f.state))
           ELSE /\ Return(<<>>)
                /\ UNCHANGED delivered
    /\ UNCHANGED <<memo, tokenMemo, chainParsers, backrefs, parseStack, results,
                   resultsCount, phase, run, yielded, returned, fault, breadth, fresh, invoked>>

----------------------------------------------------------------------------
(* The raw transformers of the symbol combinators and their continuations *)

Unchanged1 ==
    UNCHANGED <<memo, tokenMemo, chainParsers, backrefs, parseStack, results,
                resultsCount, phase, run, yielded, returned, fault, breadth, fresh, invoked,
                   delivered>>

\* SymbolParser.lazy: the parser the thunk returned is called
Lazy ==
    /\ ExecutingRaw("lazy")
    /\ LET f == Head(calls)
       IN  Return(<<CallTransformer(Parser(f.parser).parsers[1], f.state, f.continuation)>>)
    /\ Unchanged1

\* SymbolParser.toSymbol: continuation(parser.transformer(state))
ToSymbol ==
    /\ phase = "running"
    /\ ExecutingRaw("toSymbol")
    /\ LET f == Head(calls)
           output == Transform([memo |-> tokenMemo, invoked |-> invoked],
                               Parser(f.parser).token, f.state)
       IN  /\ tokenMemo' = output.tk.memo
           /\ invoked' = output.tk.invoked
           /\ IF output.fault = NeverReturns
              THEN /\ phase' = "hung"
                   /\ UNCHANGED <<calls, fault>>
              ELSE IF output.fault # ""
              THEN Throw(output.fault)
              ELSE /\ Return(<<CallContinuation(f.continuation, output.out)>>)
                   /\ UNCHANGED <<phase, fault>>
    /\ UNCHANGED <<memo, chainParsers, backrefs, parseStack, results, resultsCount, run,
                   yielded, returned, breadth, fresh, delivered>>

\* empty: continuation(state)
Empty ==
    /\ ExecutingRaw("empty")
    /\ LET f == Head(calls)
       IN  Return(<<CallContinuation(f.continuation, f.state)>>)
    /\ Unchanged1

\* alternatives(parsers): an error goes to the continuation, a result to every parser
Alternatives ==
    /\ ExecutingRaw("alternatives")
    /\ LET f == Head(calls)
           parsers == Parser(f.parser).parsers
       IN  IF f.state.isError
           THEN Return(<<CallContinuation(f.continuation, f.state)>>)
           ELSE Return([n \in 1..Len(parsers) |->
                           CallTransformer(parsers[n], f.state, f.continuation)])
    /\ Unchanged1

\* map(parser, mdata, merror), symbol layer
Map ==
    /\ ExecutingRaw("map")
    /\ LET f == Head(calls)
       IN  Return(<<CallTransformer(Parser(f.parser).parsers[1], f.state,
                                    MapContinuation(f.parser, f.continuation))>>)
    /\ Unchanged1

\* what map's continuation passes on
Mapped(parser, nextState) ==
    IF nextState.isError
    THEN updateParseError(nextState, merror(nextState))
    ELSE updateParseResult(nextState, nextState.index,
                           mdata(Parser(parser).mdata, nextState), <<>>)

\* map's continuation
MapNext ==
    /\ ExecutingContinuation("map")
    /\ LET f == Head(calls)
           k == f.continuation
       IN  Return(<<CallContinuation(k.k[1], Mapped(k.parser, f.state))>>)
    /\ Unchanged1

FreshMemo == [currentTarget |-> <<>>, memotable |-> EmptyMap]

\* a chain whose steps all continue with the chain's last parser
ChainStepToLast(chain, i, n, constructed, invocation) ==
    [kind |-> "chainStep", parsers |-> <<>>, token |-> 0, mdata |-> "", action |-> "",
     chain |-> chain, i |-> i, nextChain |-> Grammar[chain].parsers[n],
     invocation |-> invocation]

\* the SymbolParser chain's transformer builds for step i (from 1) of n, as the
\* (n - i)-th parser it constructs after those already constructed
ChainStep(chain, i, n, constructed, invocation) ==
    [kind |-> "chainStep", parsers |-> <<>>, token |-> 0, mdata |-> "", action |-> "",
     chain |-> chain, i |-> i,
     nextChain |-> IF i = n - 1 THEN Grammar[chain].parsers[n]
                   ELSE Len(Grammar) + constructed + (n - i - 1),
     invocation |-> invocation]

\* chain(parsers), symbol layer, without an action: the transformer builds its
\* chain of SymbolParsers from the last step to the first and calls the first
Chain ==
    /\ ExecutingRaw("chain")
    /\ LET f == Head(calls)
           parsers == Parser(f.parser).parsers
           n == Len(parsers)
           constructed == Len(chainParsers)
           built == [c \in 1..(n - 1) |->
                        ChainStep(f.parser, n - c, n, constructed, Len(backrefs) + 1)]
           first == IF n = 1 THEN parsers[1] ELSE Len(Grammar) + constructed + (n - 1)
       IN  /\ chainParsers' = chainParsers \o built
           /\ memo' = memo \o [c \in 1..(n - 1) |-> FreshMemo]
           /\ backrefs' = Append(backrefs, EmptyMap)
           /\ Return(<<CallTransformer(first, f.state, f.continuation)>>)
    /\ UNCHANGED <<tokenMemo, parseStack, results, resultsCount, phase, run, yielded,
                   returned, fault, breadth, fresh, invoked,
                   delivered>>

\* the transformer of a step of the chain: parsers[i].transformer(state, ...)
ChainStepTransformer ==
    /\ ExecutingRaw("chainStep")
    /\ LET f == Head(calls)
           step == Parser(f.parser)
       IN  Return(<<CallTransformer(Grammar[step.chain].parsers[step.i], f.state,
                                    ChainContinuation(f.parser, f.state, f.continuation))>>)
    /\ Unchanged1

\* the continuation of a step: the backreference, then the next step
ChainNext ==
    /\ ExecutingContinuation("chain")
    /\ LET f == Head(calls)
           k == f.continuation
           step == Parser(k.parser)
       IN  /\ backrefs' =
                  IF Grammar[step.chain].action # "" /\ ~f.state.isError
                  THEN [backrefs EXCEPT ![step.invocation] =
                            MapSet(@, Identity(f.state), k.state)]
                  ELSE backrefs
           /\ Return(<<CallTransformer(k.nextChain, f.state, k.k[1])>>)
    /\ UNCHANGED <<memo, tokenMemo, chainParsers, parseStack, results, resultsCount,
                   phase, run, yielded, returned, fault, breadth, fresh, invoked,
                   delivered>>

\* generate(): function (state) { results.push(state) }
CollectResult ==
    /\ ExecutingContinuation("collect")
    /\ IF Head(calls).continuation.parser \in {0, run.number}
       THEN /\ results' = Append(results, Head(calls).state)
            /\ UNCHANGED fresh
       ELSE /\ fresh' = [fresh EXCEPT !.results = Append(@, Head(calls).state)]
            /\ UNCHANGED results
    /\ Return(<<>>)
    /\ UNCHANGED <<memo, tokenMemo, chainParsers, backrefs, parseStack, resultsCount,
                   phase, run, yielded, returned, fault, breadth, invoked, delivered>>

----------------------------------------------------------------------------
(* The drivers: generate, run, asyncRun *)

RECURSIVE InsertByIndex(_, _)
\* state placed after the states of sorted whose index is not greater
InsertByIndex(sorted, state) ==
    IF sorted = <<>> THEN <<state>>
    ELSE IF Head(sorted).index <= state.index
         THEN <<Head(sorted)>> \o InsertByIndex(Tail(sorted), state)
         ELSE <<state>> \o sorted

RECURSIVE SortByIndex(_)
\* results.sort((a, b) => a.index - b.index): a stable sort
SortByIndex(states) ==
    IF states = <<>> THEN <<>>
    ELSE InsertByIndex(SortByIndex(SubSeq(states, 1, Len(states) - 1)), states[Len(states)])

\* run without its filters: every state, sorted
RunResultUnfiltered(states) == SortByIndex(states)

\* what run returns for the states the generator yielded (at least one)
RunResult(states) ==
    LET sorted == SortByIndex(states)
        maxIndex == sorted[Len(sorted)].index
        maxResults == SelectSeq(sorted, LAMBDA state : state.index >= maxIndex)
        nonErrorResults == SelectSeq(maxResults, LAMBDA state : ~state.isError)
    IN  IF Len(nonErrorResults) > 0 THEN nonErrorResults ELSE maxResults

\* what asyncRun returns for the states the generator yielded
AsyncRunResult(states) == states

\* the parse stack generate() starts with
Seed(parser, target) ==
    <<WorkItem(TRUE, parser, ParseResult(target, 0, <<>>, NoSemantics), Collect)>>

\* transformer(nextState, continuation, parseStack) for a raw transformer, called
\* by generate()
Execution(parser, state) == [parser |-> parser, key |-> Identity(state), raw |-> TRUE]

\* a driver that pops whether or not a collected state is still to be yielded
PopEager ==
    /\ phase = "running"
    /\ calls = <<>>
    /\ parseStack # <<>>
    /\ LET item == parseStack[Len(parseStack)]
       IN  /\ parseStack' = SubSeq(parseStack, 1, Len(parseStack) - 1)
           /\ calls' = <<IF item.wrapped
                         THEN CallTransformer(item.parser, item.state, item.continuation)
                         ELSE CallRaw(item.parser, item.state, item.continuation)>>
           /\ delivered' = IF item.wrapped THEN delivered
                           ELSE Append(delivered, Execution(item.parser, item.state))
    /\ UNCHANGED <<memo, tokenMemo, chainParsers, backrefs, results, resultsCount, phase,
                   run, yielded, returned, fault, breadth, fresh, invoked>>

\* a driver that takes the oldest work item: parseStack.shift()
PopOldest ==
    /\ phase = "running"
    /\ calls = <<>>
    /\ parseStack # <<>>
    /\ Len(results) <= resultsCount
    /\ LET item == parseStack[1]
       IN  /\ parseStack' = Tail(parseStack)
           /\ calls' = <<IF item.wrapped
                         THEN CallTransformer(item.parser, item.state, item.continuation)
                         ELSE CallRaw(item.parser, item.state, item.continuation)>>
           /\ delivered' = IF item.wrapped THEN delivered
                           ELSE Append(delivered, Execution(item.parser, item.state))
    /\ UNCHANGED <<memo, tokenMemo, chainParsers, backrefs, results, resultsCount, phase,
                   run, yielded, returned, fault, breadth, fresh, invoked>>

\* generate(): const [transformer, nextState, continuation] = parseStack.pop();
\* transformer(nextState, continuation, parseStack)
Pop ==
    /\ phase = "running"
    /\ calls = <<>>
    /\ parseStack # <<>>
    /\ Len(results) <= resultsCount
    /\ LET item == parseStack[Len(parseStack)]
       IN  /\ parseStack' = SubSeq(parseStack, 1, Len(parseStack) - 1)
           /\ calls' = <<IF item.wrapped
                         THEN CallTransformer(item.parser, item.state, item.continuation)
                         ELSE CallRaw(item.parser, item.state, item.continuation)>>
           /\ delivered' = IF item.wrapped THEN delivered
                           ELSE Append(delivered, Execution(item.parser, item.state))
    /\ UNCHANGED <<memo, tokenMemo, chainParsers, backrefs, results, resultsCount, phase,
                   run, yielded, returned, fault, breadth, fresh, invoked>>

\* generate(): yield results[resultsCount]
Yield ==
    /\ phase = "running"
    /\ calls = <<>>
    /\ Len(results) > resultsCount
    /\ yielded' = Append(yielded, results[resultsCount + 1])
    /\ phase' = "suspended"
    /\ UNCHANGED <<memo, tokenMemo, chainParsers, backrefs, parseStack, calls, results,
                   resultsCount, run, returned, fault, breadth, fresh, invoked,
                   delivered>>

\* the caller asks for the next state: resultsCount++
Resume ==
    /\ phase = "suspended"
    /\ resultsCount' = resultsCount + 1
    /\ phase' = "running"
    /\ UNCHANGED <<memo, tokenMemo, chainParsers, backrefs, parseStack, calls, results,
                   run, yielded, returned, fault, breadth, fresh, invoked,
                   delivered>>

\* a driver whose loop goes on until a state is collected that was not yielded
ExhaustedNot ==
    /\ phase = "running"
    /\ calls = <<>>
    /\ parseStack = <<>>
    /\ Len(results) < resultsCount

\* generate() has nothing left to execute or to yield
Exhausted ==
    /\ phase = "running"
    /\ calls = <<>>
    /\ parseStack = <<>>
    /\ Len(results) <= resultsCount

\* run: the generator is drained, the states sorted and filtered
RunReturns ==
    /\ Exhausted
    /\ run.mode = "run"
    /\ IF yielded = <<>>
       THEN /\ phase' = "fault"
            /\ fault' = "TypeError"
            /\ UNCHANGED returned
       ELSE /\ phase' = "done"
            /\ returned' = RunResult(yielded)
            /\ UNCHANGED fault
    /\ UNCHANGED <<memo, tokenMemo, chainParsers, backrefs, parseStack, calls, results,
                   resultsCount, run, yielded, breadth, fresh, invoked, delivered>>

\* asyncRun: the generator is drained, each state awaited
AsyncRunReturns ==
    /\ Exhausted
    /\ run.mode = "asyncRun"
    /\ phase' = "done"
    /\ returned' = AsyncRunResult(yielded)
    /\ UNCHANGED <<memo, tokenMemo, chainParsers, backrefs, parseStack, calls, results,
                   resultsCount, run, yielded, fault, breadth, fresh, invoked, delivered>>

----------------------------------------------------------------------------
(* Inputs *)

RECURSIVE Strings(_)
\* the strings over {a, b} of length n
Strings(n) ==
    IF n = 0 THEN {<<>>}
    ELSE {<<c>> \o t : c \in {"a", "b"}, t \in Strings(n - 1)}

\* a^n
Repeat(n) == [c \in 1..n |-> "a"]

Targets ==
    UNION {Strings(n) : n \in 0..MaxLen} \cup {Repeat(n) : n \in 0..MaxA}

Roots == {L, R, E, S, N, U, X, P}

Infinity == [finite |-> FALSE, max |-> 0]

Breadths == {Infinity} \cup {[finite |-> TRUE, max |-> n] : n \in 1..MaxBreadth}

NoRun == [parser |-> 0, target |-> <<>>, returned |-> <<>>, fault |-> ""]

\* a first run on freshly constructed parsers
Constructed ==
    /\ memo = [p \in 1..Len(Grammar) |-> FreshMemo]
    /\ tokenMemo = [t \in 1..Len(TokenParsers) |-> FreshMemo]
    /\ chainParsers = <<>>
    /\ backrefs = <<>>
    /\ calls = <<>>
    /\ results = <<>>
    /\ resultsCount = 0
    /\ phase = "running"
    /\ yielded = <<>>
    /\ returned = <<>>
    /\ fault = ""
    /\ fresh = NoRun
    /\ invoked = <<>>
    /\ delivered = <<>>

Init ==
    /\ Constructed
    /\ breadth \in Breadths
    /\ \E parser \in Roots, target \in Targets, mode \in {"run", "asyncRun"} :
           /\ run = [parser |-> parser, mode |-> mode, target |-> target,
                     number |-> 1, onFresh |-> TRUE]
           /\ parseStack = Seed(parser, target)

InitRerun ==
    /\ Constructed
    /\ breadth = Infinity
    /\ \E parser \in Roots, target \in Targets :
           /\ run = [parser |-> parser, mode |-> "run", target |-> target,
                     number |-> 1, onFresh |-> TRUE]
           /\ parseStack = Seed(parser, target)

----------------------------------------------------------------------------
(* A caller that uses the same parsers for several runs *)

\* generate() driven by the caller itself returns when it is exhausted
GeneratorReturns ==
    /\ Exhausted
    /\ run.mode = "generate"
    /\ phase' = "done"
    /\ returned' = results
    /\ UNCHANGED <<memo, tokenMemo, chainParsers, backrefs, parseStack, calls, results,
                   resultsCount, run, yielded, fault, breadth, fresh, invoked, delivered>>

\* the caller stops pulling from the generator
Abandon ==
    /\ phase = "suspended"
    /\ run.mode = "generate"
    /\ phase' = "abandoned"
    /\ UNCHANGED <<memo, tokenMemo, chainParsers, backrefs, parseStack, calls, results,
                   resultsCount, run, yielded, returned, fault, breadth, fresh, invoked,
                   delivered>>

Ended == {"done", "fault", "abandoned"}

\* the targets of a second run that changes the target
RerunTargets == UNION {Strings(n) : n \in 0..MaxRerunLen}

\* the grammars run on fresh instances after parser, to compare with it
Peers(parser) == IF parser = L THEN {L, R, E} ELSE {parser}

\* a new call of generate(): its locals
Begin(parser, mode, target, onFresh) ==
    /\ run' = [parser |-> parser, mode |-> mode, target |-> target,
               number |-> run.number + 1, onFresh |-> onFresh]
    /\ parseStack' = Seed(parser, target)
    /\ calls' = <<>>
    /\ results' = <<>>
    /\ resultsCount' = 0
    /\ phase' = "running"
    /\ yielded' = <<>>
    /\ returned' = <<>>
    /\ fault' = ""
    /\ fresh' = IF run.number = 1
                THEN [parser |-> run.parser, target |-> run.target,
                      returned |-> returned, fault |-> fault]
                ELSE fresh

\* the caller runs the same parser instance again
RunAgain ==
    /\ phase \in Ended
    /\ \/ run.number = 1
       \/ run.number = 2 /\ run.mode = "generate"
    /\ \E target \in (IF run.number = 1 THEN RerunTargets ELSE {}) \cup {run.target} :
           Begin(run.parser, "run", target, FALSE)
    /\ UNCHANGED <<memo, tokenMemo, chainParsers, backrefs, breadth, invoked, delivered>>

\* the caller constructs the grammars anew and runs one of them on the same target
RunFresh ==
    /\ phase \in Ended
    /\ run.number = 1
    /\ \E parser \in Peers(run.parser) :
           Begin(parser, IF parser = run.parser THEN "generate" ELSE "run", run.target, TRUE)
    /\ memo' = [p \in 1..Len(Grammar) |-> FreshMemo]
    /\ tokenMemo' = [t \in 1..Len(TokenParsers) |-> FreshMemo]
    /\ chainParsers' = <<>>
    /\ backrefs' = <<>>
    /\ invoked' = <<>>
    /\ delivered' = <<>>
    /\ UNCHANGED breadth

Execute ==
    \/ SymbolTransformer
    \/ ReplayResults
    \/ Publish
    \/ PublishToContinuations
    \/ Lazy
    \/ ToSymbol
    \/ Empty
    \/ Alternatives
    \/ Map
    \/ MapNext
    \/ Chain
    \/ ChainStepTransformer
    \/ ChainNext
    \/ CollectResult

Next ==
    \/ Execute
    \/ Pop
    \/ Yield
    \/ Resume
    \/ RunReturns
    \/ AsyncRunReturns

Spec == Init /\ [][Next]_vars


\* the steps of one run, as the engine schedules them
Engine ==
    \/ Execute
    \/ Pop
    \/ Yield
    \/ Resume
    \/ RunReturns

NextRerun ==
    \/ Engine
    \/ GeneratorReturns
    \/ Abandon
    \/ RunAgain
    \/ RunFresh

SpecRerun == InitRerun /\ [][NextRerun]_vars

\* a run is synchronous, single-threaded code: its next step is always taken
FairSpec == Spec /\ WF_vars(Next)

\* the same for the runs of a caller that may stop between or within runs
FairSpecRerun == SpecRerun /\ WF_vars(Engine)


----------------------------------------------------------------------------
(* Two generators on the same parsers, advanced in turn by the caller *)

\* the targets of two generators in progress
TurnTargets == RerunTargets \cup {Repeat(2)}

\* const g = parser.generate(target, new NoSemantics()): the locals of call
\* number n of generate(), before its first next()
Generator(n, parser, target) ==
    [run |-> [parser |-> parser, mode |-> "generate", target |-> target, number |-> n,
              onFresh |-> FALSE],
     parseStack |-> <<WorkItem(TRUE, parser, ParseResult(target, 0, <<>>, NoSemantics),
                               CollectOf(n))>>,
     results |-> <<>>, resultsCount |-> 0, yielded |-> <<>>, phase |-> "running",
     returned |-> <<>>, fault |-> ""]

\* two generators are created on the same instances; the first is advanced
InitInterleaved ==
    /\ memo = [p \in 1..Len(Grammar) |-> FreshMemo]
    /\ tokenMemo = [t \in 1..Len(TokenParsers) |-> FreshMemo]
    /\ chainParsers = <<>>
    /\ backrefs = <<>>
    /\ calls = <<>>
    /\ invoked = <<>>
    /\ delivered = <<>>
    /\ breadth = Infinity
    /\ \E parser \in Roots, first \in TurnTargets, second \in TurnTargets :
           LET g == Generator(1, parser, first)
           IN  /\ run = g.run
               /\ parseStack = g.parseStack
               /\ results = g.results
               /\ resultsCount = g.resultsCount
               /\ yielded = g.yielded
               /\ phase = g.phase
               /\ returned = g.returned
               /\ fault = g.fault
               /\ fresh = Generator(2, parser, second)

\* the caller turns to the other generator: a generator is left where it
\* yielded, returned or threw, and one that has returned or thrown is not
\* advanced again
Switch ==
    /\ phase \in {"suspended", "done", "fault"}
    /\ fresh.phase \in {"running", "suspended"}
    /\ calls = <<>>
    /\ run' = fresh.run
    /\ parseStack' = fresh.parseStack
    /\ results' = fresh.results
    /\ resultsCount' = fresh.resultsCount
    /\ yielded' = fresh.yielded
    /\ phase' = fresh.phase
    /\ returned' = fresh.returned
    /\ fault' = fresh.fault
    /\ fresh' = [run |-> run, parseStack |-> parseStack, results |-> results,
                 resultsCount |-> resultsCount, yielded |-> yielded, phase |-> phase,
                 returned |-> returned, fault |-> fault]
    /\ UNCHANGED <<memo, tokenMemo, chainParsers, backrefs, calls, breadth, invoked,
                   delivered>>

NextInterleaved ==
    \/ Execute
    \/ Pop
    \/ Yield
    \/ Resume
    \/ GeneratorReturns
    \/ Switch

SpecInterleaved == InitInterleaved /\ [][NextInterleaved]_vars

----------------------------------------------------------------------------
(* The token layer driven directly: TokenParser.run and TokenParser.transformer *)

\* the data a caller passes
Data == {NoSemantics, StaticSemantics("d", 0)}

\* the states TokenParser.run constructs: new ParseResult(target, index ?? 0, [], data)
RunInputs ==
    {ParseResult(target, index, <<>>, data) :
        target \in UNION {Strings(n) : n \in 0..MaxTokenLen}, index \in 0..MaxTokenLen, data \in Data}

\* the states a caller or another parser passes to a transformer: a result or an
\* error at an index of the target, with no token or with one that holds the
\* target up to the index
Inputs ==
    LET targets == UNION {Strings(n) : n \in 0..MaxTokenLen}
        positions == {<<target, index, result>> \in
                         targets \X (0..MaxTokenLen) \X ({<<>>} \cup {<<Join(t)>> : t \in targets}) :
                         /\ index <= Len(target)
                         /\ result # <<>> => /\ index > 0
                                             /\ result[1] = Join(SubSeq(target, 1, index))}
    IN  {ParseResult(at[1], at[2], at[3], data) : at \in positions, data \in Data}
        \cup {ParseError(at[1], at[2], at[3], e) : at \in positions, e \in {eof, ERROR}}

\* the states a second call on the same instances is given: the same state, one
\* of the same position, the state of the other kind with the same fields, or the
\* start of another target
Again(state) ==
    {other \in Inputs : other.target = state.target /\ other.index = state.index}
    \cup {[state EXCEPT !.isError = ~@]}
    \cup {ParseResult(target, 0, <<>>, NoSemantics) : target \in RerunTargets}

InitToken ==
    /\ Constructed
    /\ breadth = Infinity
    /\ parseStack = <<>>
    /\ \E t \in 1..Len(TokenParsers), mode \in {"TokenParser.run", "transformer"} :
       \E state \in (IF mode = "transformer" THEN Inputs
                     ELSE {input \in RunInputs : ~Throws(input)}) :
           run = [parser |-> t, mode |-> mode, target |-> state.target, number |-> 1,
                  onFresh |-> TRUE, state |-> state]

\* the call of the transformer of run.parser on run.state
TokenCall ==
    LET output == Transform([memo |-> tokenMemo, invoked |-> invoked], run.parser, run.state)
    IN  /\ phase = "running"
        /\ tokenMemo' = output.tk.memo
        /\ invoked' = output.tk.invoked
        /\ IF output.fault = NeverReturns
           THEN /\ phase' = "hung"
                /\ UNCHANGED <<returned, fault>>
           ELSE IF output.fault # ""
           THEN /\ phase' = "fault"
                /\ fault' = output.fault
                /\ UNCHANGED returned
           ELSE /\ phase' = "done"
                /\ returned' = <<output.out>>
                /\ UNCHANGED fault
        /\ UNCHANGED <<memo, chainParsers, backrefs, parseStack, calls, results,
                       resultsCount, run, yielded, breadth, fresh, delivered>>

\* TokenParser.run: [this.transformer(new ParseResult(target, index ?? 0, [], data))]
TokenRun ==
    /\ run.mode = "TokenParser.run"
    /\ TokenCall

\* parser.transformer(state)
TokenTransformer ==
    /\ run.mode = "transformer"
    /\ TokenCall

\* the caller calls the same instance again
TokenAgain ==
    /\ phase \in Ended
    /\ run.number = 1
    /\ \E state \in Again(run.state) :
           /\ run.mode = "TokenParser.run" => state.result = <<>>
           /\ run' = [run EXCEPT !.number = 2, !.state = state, !.target = state.target,
                                 !.onFresh = FALSE]
    /\ fresh' = [parser |-> run.parser, target |-> run.target, returned |-> returned,
                 fault |-> fault, state |-> run.state, invoked |-> invoked,
                 memo |-> tokenMemo]
    /\ phase' = "running"
    /\ returned' = <<>>
    /\ fault' = ""
    /\ UNCHANGED <<memo, tokenMemo, chainParsers, backrefs, parseStack, calls, results,
                   resultsCount, yielded, breadth, invoked, delivered>>

NextToken ==
    \/ TokenRun
    \/ TokenTransformer
    \/ TokenAgain

SpecToken == InitToken /\ [][NextToken]_vars

----------------------------------------------------------------------------
(* The symbol layer over token parsers: SymbolParser.run with data and index *)

\* the parsers run: G, GR, alternatives of a token and empty, toSymbol(p)
SymbolRoots == {G, GR, 33, 35, 37, 39} \cup {toSymbol(t) : t \in 1..Len(TokenParsers)}

\* a parse stack that starts every run at index 0
SeedAtStart(parser, state) ==
    <<WorkItem(TRUE, parser, ParseResult(state.target, 0, <<>>, state.sem), Collect)>>

\* the parse stack generate(target, data, index) starts with; state is
\* new ParseResult(target, index ?? 0, [], data)
SeedAt(parser, state) == <<WorkItem(TRUE, parser, state, Collect)>>

InitSymbols ==
    /\ Constructed
    /\ breadth = Infinity
    /\ \E parser \in SymbolRoots, state \in {input \in RunInputs : ~Throws(input)} :
           /\ run = [parser |-> parser, mode |-> "run", target |-> state.target,
                     number |-> 1, onFresh |-> TRUE, state |-> state]
           /\ parseStack = SeedAt(parser, state)

\* a second call of run(target, data, index): the locals of generate()
BeginAgain(parser, onFresh) ==
    /\ phase \in Ended
    /\ run.number = 1
    /\ run' = [run EXCEPT !.parser = parser, !.number = 2, !.onFresh = onFresh]
    /\ parseStack' = SeedAt(parser, run.state)
    /\ calls' = <<>>
    /\ results' = <<>>
    /\ resultsCount' = 0
    /\ phase' = "running"
    /\ yielded' = <<>>
    /\ returned' = <<>>
    /\ fault' = ""
    /\ fresh' = [parser |-> run.parser, target |-> run.target, returned |-> returned,
                 fault |-> fault, state |-> run.state, invoked |-> invoked,
                 memo |-> tokenMemo]
    /\ UNCHANGED breadth

\* the caller runs the same instance again with the same arguments
RunSymbolAgain ==
    /\ BeginAgain(run.parser, FALSE)
    /\ UNCHANGED <<memo, tokenMemo, chainParsers, backrefs, invoked, delivered>>

\* the caller constructs the parsers anew, the two alternatives exchanged, and
\* runs the result with the same arguments
RunExchanged ==
    /\ run.parser \in {33, 35, 37, 39}
    /\ BeginAgain(Exchanged(run.parser), TRUE)
    /\ memo' = [p \in 1..Len(Grammar) |-> FreshMemo]
    /\ tokenMemo' = [t \in 1..Len(TokenParsers) |-> FreshMemo]
    /\ chainParsers' = <<>>
    /\ backrefs' = <<>>
    /\ invoked' = <<>>
    /\ delivered' = <<>>

NextSymbols ==
    \/ SymbolTransformer
    \/ ReplayResults
    \/ Publish
    \/ PublishToContinuations
    \/ ToSymbol
    \/ Empty
    \/ Alternatives
    \/ Chain
    \/ ChainStepTransformer
    \/ ChainNext
    \/ CollectResult
    \/ Pop
    \/ Yield
    \/ Resume
    \/ RunReturns
    \/ RunSymbolAgain
    \/ RunExchanged

SpecSymbols == InitSymbols /\ [][NextSymbols]_vars

----------------------------------------------------------------------------
(* A parser and a map of it: in the token layer a call of the map's
   transformer, in the symbol layer a run of the parser and then a run of the
   map of newly constructed parsers *)

\* the token parsers that are maps
TokenMaps == {t \in 1..Len(TokenParsers) : TokenParsers[t].kind = "map"}

InitMapped ==
    /\ Constructed
    /\ breadth = Infinity
    /\ \/ /\ parseStack = <<>>
          /\ \E t \in TokenMaps, state \in Inputs :
                 run = [parser |-> t, mode |-> "transformer", target |-> state.target,
                        number |-> 1, onFresh |-> TRUE, state |-> state]
       \/ \E parser \in Unmapped, state \in {input \in RunInputs : ~Throws(input)} :
              /\ run = [parser |-> parser, mode |-> "run", target |-> state.target,
                        number |-> 1, onFresh |-> TRUE, state |-> state]
              /\ parseStack = SeedAt(parser, state)

\* the caller constructs the parsers anew and runs a map of the parser with the
\* same arguments
RunMapped ==
    /\ run.mode = "run"
    /\ run.parser \in Unmapped
    /\ BeginAgain(MapOf(run.parser), TRUE)
    /\ memo' = [p \in 1..Len(Grammar) |-> FreshMemo]
    /\ tokenMemo' = [t \in 1..Len(TokenParsers) |-> FreshMemo]
    /\ chainParsers' = <<>>
    /\ backrefs' = <<>>
    /\ invoked' = <<>>
    /\ delivered' = <<>>

NextMapped ==
    \/ TokenTransformer
    \/ SymbolTransformer
    \/ ReplayResults
    \/ Publish
    \/ PublishToContinuations
    \/ ToSymbol
    \/ Empty
    \/ Lazy
    \/ Alternatives
    \/ Chain
    \/ ChainStepTransformer
    \/ ChainNext
    \/ Map
    \/ MapNext
    \/ CollectResult
    \/ Pop
    \/ Yield
    \/ Resume
    \/ RunReturns
    \/ RunMapped

SpecMapped == InitMapped /\ [][NextMapped]_vars

----------------------------------------------------------------------------
(* The constructors of the states, called by a user of the library *)

\* the arguments given: a target, an index from -1 to past the longest target,
\* and no token, one token or two
Arguments ==
    LET targets == UNION {Strings(n) : n \in 0..MaxTokenLen}
        tokens == {<<>>} \cup {<<Join(t)>> : t \in targets}
                  \cup {<<Join(t), Join(u)>> : t, u \in Strings(1)}
    IN  targets \X (-1..(MaxTokenLen + 1)) \X tokens

InitConstruct ==
    /\ Constructed
    /\ breadth = Infinity
    /\ parseStack = <<>>
    /\ \E args \in Arguments :
           \/ \E data \in Data :
                  run = [parser |-> 0, mode |-> "new ParseResult", target |-> args[1],
                         number |-> 1, onFresh |-> TRUE,
                         state |-> ParseResult(args[1], args[2], args[3], data)]
           \/ run = [parser |-> 0, mode |-> "new ParseError", target |-> args[1],
                     number |-> 1, onFresh |-> TRUE,
                     state |-> ParseError(args[1], args[2], args[3], eof)]

\* the constructor called with the fields of run.state returns the state or
\* throws a RangeError
Construct ==
    /\ phase = "running"
    /\ IF Throws(run.state)
       THEN /\ phase' = "fault"
            /\ fault' = "RangeError"
            /\ UNCHANGED returned
       ELSE /\ phase' = "done"
            /\ returned' = <<run.state>>
            /\ UNCHANGED fault
    /\ UNCHANGED <<memo, tokenMemo, chainParsers, backrefs, parseStack, calls, results,
                   resultsCount, run, yielded, breadth, fresh, invoked, delivered>>

\* new ParseResult(target, index, result, data)
NewParseResult ==
    /\ run.mode = "new ParseResult"
    /\ Construct

\* new ParseError(target, index, result, error)
NewParseError ==
    /\ run.mode = "new ParseError"
    /\ Construct

\* the caller constructs a second state of the same kind and target: at any
\* index, with the tokens of the first or none, and with a semantic value of
\* the same or another identity, or of the same identity and another value
ConstructAgain ==
    /\ run.mode \in {"new ParseResult", "new ParseError"}
    /\ phase = "done"
    /\ run.number = 1
    /\ \E index \in -1..(MaxTokenLen + 1), result \in {<<>>, run.state.result},
          sem \in Data \cup {eof, StaticSemantics("d", 1), StaticSemantics("1", 0)} :
           run' = [run EXCEPT !.number = 2,
                              !.state = [run.state EXCEPT !.index = index,
                                                          !.result = result,
                                                          !.sem = sem]]
    /\ fresh' = [parser |-> 0, target |-> run.target, returned |-> returned,
                 fault |-> fault, state |-> run.state]
    /\ phase' = "running"
    /\ returned' = <<>>
    /\ UNCHANGED <<memo, tokenMemo, chainParsers, backrefs, parseStack, calls, results,
                   resultsCount, yielded, fault, breadth, invoked, delivered>>

NextConstruct ==
    \/ NewParseResult
    \/ NewParseError
    \/ ConstructAgain

SpecConstruct == InitConstruct /\ [][NextConstruct]_vars

----------------------------------------------------------------------------
(* Properties *)

Indices(states) == {states[n].index : n \in 1..Len(states)}

\* the greatest index among states (at least one)
MaxIndex(states) ==
    CHOOSE m \in Indices(states) : \A i \in Indices(states) : i <= m

\* C1: run returns exactly the collected states whose index is the maximum over
\* all the collected states, in the order they were collected; only the
\* non-error ones if there is one, otherwise all of them (errors); so no state
\* of a lower index is returned when any state, even an error, went further.
C1_RunReturnsFarthest ==
    (phase = "done" /\ run.mode = "run") =>
        LET farthest == SelectSeq(results, LAMBDA state : state.index = MaxIndex(results))
            nonError == SelectSeq(farthest, LAMBDA state : ~state.isError)
        IN  /\ results # <<>>
            /\ returned = IF nonError # <<>> THEN nonError ELSE farthest
            /\ \A n \in 1..Len(returned) : returned[n].index = MaxIndex(results)

\* a run that collected a state of a lower index and an error at the maximum
\* index, and returned the non-error state at the maximum index
C1_Witness ==
    /\ phase = "done"
    /\ run.mode = "run"
    /\ \E n \in 1..Len(results) : results[n].index < MaxIndex(results)
    /\ \E n \in 1..Len(results) :
           results[n].isError /\ results[n].index = MaxIndex(results)
    /\ \E n \in 1..Len(returned) : ~returned[n].isError

\* C2: within one generate() run the states yielded are the states delivered to
\* the root collector, each once and in the order of delivery (all of them once
\* the generator is exhausted), and no two yielded states have the same identity.
C2_YieldedOnceInOrder ==
    /\ Len(yielded) <= Len(results)
    /\ yielded = SubSeq(results, 1, Len(yielded))
    /\ Len(yielded) = resultsCount + (IF phase = "suspended" THEN 1 ELSE 0)
    /\ phase = "done" => yielded = results
    /\ \A n, o \in 1..Len(yielded) :
           Identity(yielded[n]) = Identity(yielded[o]) => n = o

\* the root parser's publisher is called with a state whose identity it has
\* already published, after that state was yielded
C2_Witness ==
    /\ ExecutingContinuation("publisher")
    /\ Head(calls).continuation.parser = run.parser
    /\ \E n \in 1..Len(yielded) : Identity(yielded[n]) = Identity(Head(calls).state)
    /\ Len(yielded) >= 2

\* C3: run completes and returns at least one state for every grammar and
\* target, also when nothing is ever delivered to the collector.
C3_RunReturnsAState ==
    (run.mode = "run" /\ ~breadth.finite /\ phase \in {"done", "fault"}) =>
        /\ phase = "done"
        /\ Len(returned) >= 1

\* C4: asyncRun resolves to the list run returns: the states at the maximum
\* index, the non-error ones preferred.
C4_AsyncRunIsRun ==
    (run.mode = "asyncRun" /\ phase = "done" /\ yielded # <<>>) =>
        returned = RunResult(yielded)


\* C5: for L = L a | a, run terminates on every target; on a^n, n >= 1, it
\* returns the single non-error state of index n whose result is n tokens 'a',
\* and on the empty target it returns the EOF error.
C5_LeftRecursion ==
    /\ [](IF run.mode = "run" /\ phase = "done"
          THEN (run.parser = L /\ ~breadth.finite) =>
                  /\ run.target = <<>> =>
                         returned = <<ParseError(<<>>, 0, <<>>, eof)>>
                  /\ (run.target # <<>> /\ run.target = Repeat(Len(run.target))) =>
                         returned = <<ParseResult(run.target, Len(run.target),
                                                  run.target, NoSemantics)>>
          ELSE TRUE)
    /\ (run.parser = L /\ ~breadth.finite) => <>(phase = "done")

\* L has run on aaa and returned the state of index 3 with result [a, a, a]
C5_Witness ==
    /\ phase = "done"
    /\ run.parser = L
    /\ run.mode = "run"
    /\ run.target = <<"a", "a", "a">>
    /\ returned = <<ParseResult(run.target, 3, <<"a", "a", "a">>, NoSemantics)>>

\* what the claims observe of a list of states
Observed(states) ==
    [n \in 1..Len(states) |->
        <<states[n].isError, states[n].index, states[n].result>>]

\* C6: L = L a | a, R = a R | a and E = (empty L a) | a are observationally
\* equal under run: on every target each of them terminates, and R and E return
\* states of the same isError flag, index and result tokens as L.
C6_RecursionsAgree ==
    /\ []((/\ run.number = 2
           /\ run.onFresh
           /\ fresh.parser = L
           /\ run.parser \in {R, E}
           /\ phase \in {"done", "fault"}) =>
                /\ phase = "done"
                /\ fresh.fault = ""
                /\ Observed(returned) = Observed(fresh.returned))
    /\ [](run.parser \in {L, R, E} /\ run.mode = "run" => <>(phase = "done"))

\* L, then E on fresh parsers, have both run on aab and returned [a, a] at index 2
C6_Witness ==
    /\ run.number = 2
    /\ run.onFresh
    /\ fresh.parser = L
    /\ run.parser = E
    /\ phase = "done"
    /\ run.target = <<"a", "a", "b">>
    /\ Observed(returned) = <<<<FALSE, 2, <<"a", "a">>>>>>
    /\ Observed(fresh.returned) = Observed(returned)

\* C7: S = S A S | A on aaaaa returns exactly two states, both non-error with
\* result [a, a, a, a, a], of data identities aaa+aa+ and aaaaa++.
C7_Ambiguity ==
    (/\ run.parser = S
     /\ run.mode = "run"
     /\ run.target = Repeat(5)
     /\ ~breadth.finite
     /\ phase \in {"done", "fault"}) =>
        /\ phase = "done"
        /\ Len(returned) = 2
        /\ \A n \in 1..2 : ~returned[n].isError /\ returned[n].result = Repeat(5)
        /\ {returned[n].sem.identity : n \in 1..2} = {"aaa+aa+", "aaaaa++"}

\* S has run on aaaaa and returned two states
C7_Witness ==
    /\ run.parser = S
    /\ run.mode = "run"
    /\ run.target = Repeat(5)
    /\ phase = "done"
    /\ Len(returned) = 2

\* C8: with a finite MAX_AMBIGUITY_BREADTH no memo entry ever holds more than
\* that many results whose index is the length of the target.
C8_BreadthBounded ==
    breadth.finite =>
        \A p \in 1..Len(memo) : \A key \in DOMAIN memo[p].memotable :
            Len(FullLength(memo[p].memotable[key].results)) <= breadth.max

\* C9: a run on the target and data of the parser's first run returns what a
\* complete run on fresh parsers returned, whether the earlier run of the
\* instance was drained or its generator was abandoned.
C9_RerunReturnsTheSame ==
    (/\ run.number >= 2
     /\ run.mode = "run"
     /\ run.parser = fresh.parser
     /\ run.target = fresh.target
     /\ phase \in {"done", "fault"}) =>
        /\ returned = fresh.returned
        /\ fault = fresh.fault

\* C10: every memo entry of an instance, in either layer, was created for the
\* instance's current target, with results of that target only; an instance
\* that replays or publishes has the target of the run as its current target;
\* and every state passed, collected or yielded in a run has the run's target.
C10_FlushOnTargetChange ==
    /\ \A p \in 1..Len(memo) : \A key \in DOMAIN memo[p].memotable :
           LET entry == memo[p].memotable[key]
           IN  /\ entry.state.target = memo[p].currentTarget
               /\ \A n \in 1..Len(entry.results) :
                      entry.results[n].target = memo[p].currentTarget
    /\ \A t \in 1..Len(tokenMemo) : \A key \in DOMAIN tokenMemo[t].memotable :
           tokenMemo[t].memotable[key].target = tokenMemo[t].currentTarget
    /\ \A n \in 1..Len(calls) :
           /\ calls[n].state.target = run.target
           /\ calls[n].op \in {"replay", "publish"} =>
                  memo[calls[n].parser].currentTarget = run.target
    /\ \A n \in 1..Len(results) : results[n].target = run.target

\* in a second run on another target, the root parser holds entries of the new
\* target while a parser not yet invoked still holds those of the first target
C10_Witness ==
    /\ run.number = 2
    /\ run.target # fresh.target
    /\ memo[run.parser].currentTarget = run.target
    /\ DOMAIN memo[run.parser].memotable # {}
    /\ \E p \in 1..Len(memo) :
           /\ memo[p].currentTarget = fresh.target
           /\ DOMAIN memo[p].memotable # {}

----------------------------------------------------------------------------
(* Properties of the token layer *)

\* a call of a token transformer has returned or thrown
TokenCalled ==
    /\ run.mode \in {"TokenParser.run", "transformer"}
    /\ phase \in {"done", "fault"}

\* the memo tables the call in progress started with
MemoBefore ==
    IF run.number = 1 THEN [t \in 1..Len(TokenParsers) |-> FreshMemo] ELSE fresh.memo

\* C11: a call of a TokenParser's transformer with a state whose identity it has
\* already been called with (same target) returns the state the first call
\* returned, and executes no raw transformer.
C11_TokenMemoised ==
    (/\ TokenCalled
     /\ run.number = 2
     /\ fresh.fault = ""
     /\ Identity(run.state) = Identity(fresh.state)) =>
        /\ phase = "done"
        /\ returned = fresh.returned
        /\ invoked = fresh.invoked

\* str("a") was called with a state and then with another state of the same
\* identity (other tokens), and returned the state of the first call
C11_Witness ==
    /\ TokenCalled
    /\ run.number = 2
    /\ run.parser = 1
    /\ run.state # fresh.state
    /\ Identity(run.state) = Identity(fresh.state)
    /\ ~fresh.state.isError
    /\ returned = fresh.returned
    /\ ~returned[1].isError

RECURSIVE StepOutputs(_, _, _, _)
\* the outputs of steps i, i + 1, ... of a chain of token parsers, the first
\* applied to state and each one after it to the output of the one before
StepOutputs(tk, parsers, i, state) ==
    IF i > Len(parsers) THEN <<>>
    ELSE LET output == Transform(tk, parsers[i], state)
         IN  <<output.out>> \o StepOutputs(output.tk, parsers, i + 1, output.out)

\* the steps of the token chain called, applied in order to its input
Steps ==
    StepOutputs([memo |-> [MemoBefore EXCEPT ![run.parser] =
                              Flush(@, run.state.target)], invoked |-> <<>>],
                TokenParsers[run.parser].parsers, 1, run.state)

\* the first step whose output is an error, 0 when there is none
FirstError(outputs) ==
    IF \E i \in 1..Len(outputs) : outputs[i].isError
    THEN CHOOSE i \in 1..Len(outputs) :
             /\ outputs[i].isError
             /\ \A j \in 1..(i - 1) : ~outputs[j].isError
    ELSE 0

\* the call in progress has not hit the memo of the parser called
TokenMiss ==
    ~Memoised(Flush(MemoBefore[run.parser], run.state.target).memotable, Identity(run.state))

\* a chain of token parsers was called and one of its steps failed
ChainFailed ==
    /\ TokenCalled
    /\ TokenParsers[run.parser].kind = "chain"
    /\ TokenMiss
    /\ FirstError(Steps) > 0

\* the chain called returned the error of its first failing step, and its
\* action was not invoked
ShortCircuited ==
    /\ phase = "done"
    /\ returned = <<Steps[FirstError(Steps)]>>
    /\ \A n \in 1..Len(invoked) : invoked[n][1] # 0

\* C12: whatever the parsers of the chain, when step i is the first step whose
\* output is an error the chain returns exactly that error (its index, the
\* tokens of the steps before i, its error value), and action is not invoked.
C12_ChainReturnsFirstError == ChainFailed => ShortCircuited

\* what the call in progress has executed: raw transformers and actions, in order
InvokedNow ==
    SubSeq(invoked, (IF run.number = 2 THEN Len(fresh.invoked) ELSE 0) + 1, Len(invoked))

\* a chain of token parsers with an action was called and every step succeeded
ChainSucceeded ==
    /\ TokenCalled
    /\ TokenParsers[run.parser].kind = "chain"
    /\ TokenParsers[run.parser].action # ""
    /\ TokenMiss
    /\ FirstError(Steps) = 0

\* the data of the states the steps of the chain called produced, in order
StepData == [i \in 1..Len(Steps) |-> Steps[i].sem]

\* C13: when every step of chain(parsers, action) succeeds, action is invoked
\* once, with the data of the state step i produced as its i-th argument, and
\* the chain returns the state of the last step with the value of action as data.
C13_ActionDataPositional ==
    ChainSucceeded =>
        /\ phase = "done"
        /\ SelectSeq(InvokedNow, LAMBDA call : call[1] = 0)
               = << <<0, JoinIdentities(StepData)>> >>
        /\ returned = <<updateParseResult(Steps[Len(Steps)], Steps[Len(Steps)].index,
                                          action(StepData), <<>>)>>

\* what the callback dataFromError returns:
\* (state) => state.isError ? RECOVERY : state.data
Applied(callback, state) == IF state.isError THEN RECOVERY ELSE state.sem

\* error(e) or recovery(dataFromError) was called with a state it has not memoised
DualCalled ==
    /\ TokenCalled
    /\ TokenMiss
    /\ \/ TokenParsers[run.parser].kind = "error"
       \/ /\ TokenParsers[run.parser].kind = "recovery"
          /\ TokenParsers[run.parser].value = dataFromError

\* C15: error(e) returns an error unchanged and turns a result into the error e
\* at the same target, index and result; recovery(dataFromError) returns a
\* result unchanged and turns an error into a result at the same target, index
\* and result whose data is dataFromError applied to the error state.
C15_ErrorRecoveryDuals ==
    DualCalled =>
        LET p == TokenParsers[run.parser]
            state == run.state
        IN  /\ phase = "done"
            /\ returned =
                  <<CASE p.kind = "error" /\ state.isError -> state
                      [] p.kind = "error" /\ ~state.isError ->
                            ParseError(state.target, state.index, state.result, p.value)
                      [] p.kind = "recovery" /\ ~state.isError -> state
                      [] p.kind = "recovery" /\ state.isError ->
                            ParseResult(state.target, state.index, state.result,
                                        Applied(p.value, state))>>

\* the terminator of until parser p succeeds at index i of the target of state
Terminated(p, state, i) ==
    ~str(TokenParsers[p.parsers[1]], ParseResult(state.target, i, <<>>, state.sem)).isError

\* the indices from that of state at which the terminator of p succeeds
Terminations(p, state) ==
    {i \in state.index..Len(state.target) : Terminated(p, state, i)}

\* the first of them
FirstTermination(p, state) ==
    CHOOSE i \in Terminations(p, state) : \A j \in Terminations(p, state) : i <= j

\* the substring of the target of state from its index to index i
Skipped(state, i) == Join(SubSeq(state.target, state.index + 1, i))

\* until(b) = 7, or chain([until(b), b]) = 8, was called with a result it has not
\* memoised
UntilCalled(parser) ==
    /\ TokenCalled
    /\ TokenMiss
    /\ run.parser = parser
    /\ ~run.state.isError

\* C18: until(t) that succeeds from s returns the first index from that of s at
\* which t succeeds and the tokens of s with the skipped substring appended;
\* chain([until(t), t]) then succeeds with the tokens of s, the skipped substring
\* and the token of t, at the index after the terminator. (Stated here for a
\* skipped substring that is not empty; C19 is the empty one.)
C18_UntilLeavesTerminator ==
    LET s == run.state
        until7 == TokenParsers[7]
        first == FirstTermination(until7, s)
    IN  /\ (UntilCalled(7) /\ phase = "done" /\ ~returned[1].isError
               /\ ~Terminated(until7, s, s.index)) =>
               /\ Terminations(until7, s) # {}
               /\ returned = <<ParseResult(s.target, first,
                                           s.result \o <<Skipped(s, first)>>, s.sem)>>
        /\ (UntilCalled(8) /\ Terminations(until7, s) # {}
               /\ ~Terminated(until7, s, s.index)) =>
               /\ phase = "done"
               /\ returned = <<ParseResult(s.target, first + 1,
                                           s.result \o <<Skipped(s, first), "b">>, s.sem)>>

\* C19: until(term) called where term matches at the starting index returns
\* the tokens of the input with one zero-length token appended, at the index
\* of the input.
C19_UntilEmptyToken ==
    (UntilCalled(7) /\ Terminated(TokenParsers[7], run.state, run.state.index)) =>
        /\ phase = "done"
        /\ returned = <<ParseResult(run.state.target, run.state.index,
                                    run.state.result \o <<"">>, run.state.sem)>>

\* many1(a, onEmpty) = 10 was called with a result it has not memoised
Many1Called ==
    /\ TokenCalled
    /\ TokenMiss
    /\ run.parser = 10
    /\ ~run.state.isError

\* the parser of many1 parser p does not match at the index of state
MatchedNone(p, state) == str(TokenParsers[p.parsers[1]], state).isError

\* C20: many1(p, onEmpty) called with a result s returns the error onEmpty at
\* the index and tokens of s exactly when p matches zero times from s, whatever
\* the tokens of s.
C20_Many1FailsOnNone ==
    Many1Called =>
        /\ phase = "done"
        /\ MatchedNone(TokenParsers[10], run.state) <=>
               returned = <<ParseError(run.state.target, run.state.index,
                                      run.state.result, onEmpty)>>

\* token parser `parser` was called with a state it has not memoised
Called(parser) ==
    /\ TokenCalled
    /\ TokenMiss
    /\ run.parser = parser

RECURSIVE Leading(_, _, _)
\* the number of consecutive characters c of target from index i
Leading(c, target, i) ==
    IF i < Len(target) /\ target[i + 1] = c THEN 1 + Leading(c, target, i + 1) ELSE 0

\* what parser t returns now for state, its memotable as the call left it
Now(t, state) == Transform([memo |-> tokenMemo, invoked |-> <<>>], t, state).out

Iterations == Len(SelectSeq(InvokedNow, LAMBDA call : call[1] = 1))

\* optional(a), applied from state again and again, succeeds before the end of
\* the target without consuming input
Stalls(state) ==
    /\ ~state.isError
    /\ state.index + Leading("a", state.target, state.index) < Len(state.target)

\* the call of many(a) = 9 returns, and that of many(optional(a)) = 21 returns
\* unless optional(a) stalls; then it never does, unless it is memoised
ManyReturns ==
    [][/\ (phase = "running" /\ run.parser = 9) => phase' = "done"
       /\ (phase = "running" /\ run.parser = 21 /\ ~Stalls(run.state)) => phase' = "done"
       /\ (phase = "running" /\ run.parser = 21 /\ Stalls(run.state) /\ TokenMiss) =>
              phase' = "hung"
       /\ phase = "hung" => phase' = "hung"]_vars

\* many(a) has returned on new instances, called with a result
ManyReturned ==
    /\ Called(9)
    /\ run.number = 1
    /\ ~run.state.isError

C22_WitnessHung ==
    /\ run.parser = 21
    /\ Stalls(run.state)
    /\ phase = "hung"

\* what parser t returns for state on instances of their own
Alone(t, state) ==
    Transform([memo |-> [u \in 1..Len(TokenParsers) |-> FreshMemo], invoked |-> <<>>],
              t, state).out

\* the alternatives of choice parser p that succeed on state, each tried alone
Succeeding(p, state) == {i \in 1..Len(p.parsers) : ~Alone(p.parsers[i], state).isError}

\* choice(parsers, onAllFail) was called with a result it has not memoised
ChoiceCalled ==
    /\ TokenCalled
    /\ TokenMiss
    /\ TokenParsers[run.parser].kind = "choice"
    /\ ~run.state.isError

\* C23: choice(parsers, onAllFail) called with a result s returns what the first
\* alternative that succeeds on s returns for s, each alternative taken alone (no
\* alternative tried before it changes that); when none succeeds it returns the
\* error onAllFail at the index and tokens of s.
C23_ChoiceFirstSuccess ==
    ChoiceCalled =>
        LET p == TokenParsers[run.parser]
            s == run.state
            first == CHOOSE i \in Succeeding(p, s) : \A j \in Succeeding(p, s) : i <= j
        IN  /\ phase = "done"
            /\ returned = <<IF Succeeding(p, s) = {}
                            THEN ParseError(s.target, s.index, s.result, onAllFail)
                            ELSE Alone(p.parsers[first], s)>>

StrCalled ==
    /\ TokenCalled
    /\ TokenMiss
    /\ TokenParsers[run.parser].kind = "str"
    /\ ~run.state.isError

\* the characters of target from index on start with s
Follows(target, index, s) ==
    /\ index + Len(s) <= Len(target)
    /\ \A i \in 1..Len(s) : target[index + i] = s[i]

\* C25: str(s, EOFError, matchError) called with a result at the end of the
\* target returns the error EOFError; called where the target does not go on
\* with s, the error matchError; both errors are at the index and tokens of the
\* input. Otherwise it returns a result with the index advanced by the length of
\* s, the token s appended and the data of the input.
C25_StrMatches ==
    StrCalled =>
        LET p == TokenParsers[run.parser]
            s == run.state
        IN  /\ phase = "done"
            /\ returned =
                 <<IF s.index >= Len(s.target)
                   THEN ParseError(s.target, s.index, s.result, p.EOFError)
                   ELSE IF ~Follows(s.target, s.index, p.s)
                   THEN ParseError(s.target, s.index, s.result, p.matchError)
                   ELSE ParseResult(s.target, s.index + Len(p.s),
                                    Append(s.result, Join(p.s)), s.sem)>>

\* state with the semantic value map(parser, c, merror) gives it
Remapped(c, state) ==
    [state EXCEPT !.sem = IF state.isError THEN merror(state) ELSE mdata(c, state)]

\* a map of the token layer was called
TokenMapCalled ==
    /\ run.mode = "transformer"
    /\ run.parser \in TokenMaps
    /\ phase \in {"done", "fault"}

\* a map of the symbol layer was run after the parser it is a map of
SymbolMapRan ==
    /\ run.mode = "run"
    /\ run.number = 2
    /\ phase \in {"done", "fault"}

\* C26: map(parser, mdata, merror) returns what parser returns with the data
\* mdata gives for it, or the error merror gives for it, and the same target,
\* index, tokens and isError; so map(parser, id, id) returns what parser returns.
\* In the symbol layer, for a run of the map and a run of the parser with the
\* same arguments: the states of the one are those of the other with the data
\* or error of the map (one state where mdata gives two states the same data),
\* state by state for map(parser, id, id), and the same engine fault if any.
C26_MapChangesPayloadOnly ==
    /\ TokenMapCalled =>
           LET p == TokenParsers[run.parser]
               output == Alone(p.parsers[1], run.state)
           IN  /\ phase = "done"
               /\ returned = <<Remapped(p.value, output)>>
               /\ p.value = id => returned = <<output>>
    /\ SymbolMapRan =>
           LET c == Parser(run.parser).mdata
           IN  /\ fault = fresh.fault
               /\ {returned[n] : n \in 1..Len(returned)} =
                      {Remapped(c, fresh.returned[n]) : n \in 1..Len(fresh.returned)}
               /\ c = id => returned = fresh.returned

\* map(choice, id, id) has returned the result of the second alternative of the
\* choice with its token
C26_Witness ==
    /\ TokenMapCalled
    /\ run.parser = 25
    /\ phase = "done"
    /\ ~returned[1].isError
    /\ returned[1].index = run.state.index + 1
    /\ returned[1].result # <<>>

\* a run of map(L, id, id) has returned a state with two tokens, as the run of
\* L did
C26_WitnessSymbols ==
    /\ SymbolMapRan
    /\ Parser(run.parser).parsers = <<L>>
    /\ phase = "done"
    /\ fresh.returned = returned
    /\ Len(returned[1].result) = 2

\* a run of a map that gives another identity has returned a result, the one of
\* the run of its parser with another data
C26_WitnessData ==
    /\ SymbolMapRan
    /\ Parser(run.parser).mdata # id
    /\ phase = "done"
    /\ returned # <<>>
    /\ ~returned[1].isError
    /\ returned # fresh.returned

\* the invocations of fn by the call in progress, each with the identity of the
\* state fn was given
SideEffects == SelectSeq(InvokedNow, LAMBDA call : call[1] = 23)

\* C27: a call of sideEffect(fn) = 23 with a state invokes fn once, with that
\* state, and returns that state; a call of chain([fn, fn, a, fn]) = 24 with a
\* result s, which applies sideEffect(fn) to s, to s again and to what a returns
\* for s, invokes fn three times, with those states.
C27_SideEffectEveryTime ==
    /\ (TokenCalled /\ run.parser = 23) =>
           /\ phase = "done"
           /\ returned = <<run.state>>
           /\ SideEffects = <<<<23, Identity(run.state)>>>>
    /\ (TokenCalled /\ run.parser = 24 /\ run.number = 1 /\ ~run.state.isError) =>
           /\ phase = "done"
           /\ returned = <<Alone(1, run.state)>>
           /\ SideEffects = <<<<23, Identity(run.state)>>, <<23, Identity(run.state)>>,
                               <<23, Identity(Alone(1, run.state))>>>>

\* C28: a call of a token parser whose callbacks do not throw and whose semantic
\* values have an identity (recovery(dataFromError) = 6 is given one that has
\* none) throws only the RangeError of a state's constructor or the error of
\* the ambiguity breadth; a chain with an action that contains a recovery
\* returns a state.
C28_FaultsAreOfConstruction ==
    (TokenCalled /\ run.parser # 6 /\ phase = "fault") => fault \in {"RangeError", "breadth"}

\* the tokens of state start with the tokens of before
Accumulated(before, state) ==
    /\ Len(before.result) <= Len(state.result)
    /\ SubSeq(state.result, 1, Len(before.result)) = before.result

\* C36: a token parser built from str, many, many1, optional, until, choice,
\* chain and map that is called with a result and returns a result returns the
\* tokens of its input followed by those it adds, also when the instance was
\* called before with a state of the same identity and other tokens.
C36_TokensAccumulate ==
    (/\ TokenCalled
     /\ TokenParsers[run.parser].kind \in
            {"str", "many", "many1", "optional", "until", "choice", "chain", "map"}
     /\ ~run.state.isError
     /\ phase = "done"
     /\ ~returned[1].isError) => Accumulated(run.state, returned[1])

\* the publisher is called with a state whose identity is stored in its entry
PublisherDrops ==
    /\ ExecutingContinuation("publisher")
    /\ LET k == Head(calls).continuation
           table == memo[k.parser].memotable
       IN  /\ k.key \in DOMAIN table
           /\ ~PublisherStores(table[k.key].results, Head(calls).state)

\* C37: a token parser called with a result does not return what it memoised
\* for an error of the same index, nor the reverse: it returns what an instance
\* of its own returns; and the publisher of a symbol parser drops a state only
\* as the duplicate of a stored state of the same kind.
C37_KindsNotConfused ==
    /\ (/\ TokenCalled
        /\ run.number = 2
        /\ fresh.fault = ""
        /\ run.state.target = fresh.state.target
        /\ run.state.index = fresh.state.index
        /\ run.state.isError # fresh.state.isError) =>
           /\ phase = "done"
           /\ returned = <<Alone(run.parser, run.state)>>
    /\ PublisherDrops =>
           LET f == Head(calls)
               stored == memo[f.continuation.parser].memotable[f.continuation.key].results
           IN  \A n \in 1..Len(stored) :
                   Identity(stored[n]) = Identity(f.state) =>
                       stored[n].isError = f.state.isError

----------------------------------------------------------------------------
(* Properties of the symbol layer over token parsers *)

\* a call of run on one of SymbolRoots has returned or thrown
SymbolRunEnded(parser, target) ==
    /\ phase \in {"done", "fault"}
    /\ run.parser = parser
    /\ run.state.target = target
    /\ run.state.index = 0

TokenOf(parser) ==
    LET alternative == Grammar[parser].parsers
    IN  IF Grammar[alternative[1]].kind = "toSymbol" THEN Grammar[alternative[1]].token
        ELSE Grammar[alternative[2]].token

\* a run of alternatives([p, empty]), in either order, has returned or thrown
OptionalRunEnded ==
    /\ phase \in {"done", "fault"}
    /\ run.parser \in {33, 35, 37, 39}

\* what p returns for the state the run starts with
TokenAlone ==
    Transform([memo |-> [t \in 1..Len(TokenParsers) |-> FreshMemo], invoked |-> <<>>],
              TokenOf(run.parser), run.state).out

\* C16: alternatives([p, empty]) run where p fails returns the state the run
\* started with; where p succeeds it yields the result of p and the state the
\* run started with; and run with the two alternatives exchanged it returns the
\* same, whatever the identity of p's error value.
C16_OptionalByEmpty ==
    OptionalRunEnded =>
        /\ phase = "done"
        /\ TokenAlone.isError => returned = <<run.state>>
        /\ ~TokenAlone.isError =>
               /\ Len(yielded) = 2
               /\ {yielded[n] : n \in 1..2} = {TokenAlone, run.state}
        /\ (run.number = 2 /\ run.onFresh) => returned = fresh.returned

\* toSymbol(p).run(target, data, index) has returned or thrown
ToSymbolRunEnded ==
    /\ phase \in {"done", "fault"}
    /\ run.parser \in {toSymbol(t) : t \in 1..Len(TokenParsers)}

\* p.run(target, data, index) on instances with the token memo tables tm:
\* what it returns, or throws
TokenRunOutcome(tm) ==
    LET output == Transform([memo |-> tm, invoked |-> <<>>],
                            Grammar[run.parser].token, run.state)
    IN  IF output.fault # "" THEN [returned |-> <<>>, fault |-> output.fault]
        ELSE [returned |-> <<output.out>>, fault |-> ""]

\* C17: toSymbol(p).run(target, data, index) returns one state, the state
\* p.run(target, data, index) returns (on new instances, and on the instances
\* of the run after it), and throws where p.run throws.
C17_ToSymbolIsTokenRun ==
    ToSymbolRunEnded =>
        /\ [returned |-> returned, fault |-> fault]
               = TokenRunOutcome([t \in 1..Len(TokenParsers) |-> FreshMemo])
        /\ [returned |-> returned, fault |-> fault] = TokenRunOutcome(tokenMemo)
        /\ phase = "done" => Len(returned) = 1

\* toSymbol(chain([until(b), b])).run(target, data, 1) has returned a result
\* with tokens
C17_Witness ==
    /\ ToSymbolRunEnded
    /\ run.parser = toSymbol(8)
    /\ run.state.index = 1
    /\ phase = "done"
    /\ ~returned[1].isError
    /\ Len(returned[1].result) > 0


\* the elements of a list of states
Elements(states) == {states[n] : n \in 1..Len(states)}

\* the states of a run: those the memo tables of the two layers hold, those
\* pending on the parse stack, those the calls in progress and their
\* continuations were given, the backreferences of the chains, and those
\* collected, yielded and returned
StatesOfRun ==
    UNION {UNION {{memo[p].memotable[key].state} \cup Elements(memo[p].memotable[key].results)
                  : key \in DOMAIN memo[p].memotable} : p \in 1..Len(memo)}
    \cup UNION {{tokenMemo[t].memotable[key] : key \in DOMAIN tokenMemo[t].memotable}
                : t \in 1..Len(tokenMemo)}
    \cup {parseStack[n].state : n \in 1..Len(parseStack)}
    \cup {calls[n].state : n \in 1..Len(calls)}
    \cup {calls[n].continuation.state : n \in 1..Len(calls)}
    \cup UNION {{backrefs[c][key] : key \in DOMAIN backrefs[c]} : c \in 1..Len(backrefs)}
    \cup Elements(results) \cup Elements(yielded) \cup Elements(returned)
    \cup {run.state}

\* C29: every state of a run of a SymbolParser (given to or returned by a parser,
\* memoised, pending on the parse stack, collected, yielded or returned) has an
\* index from 0 to the length of its target and tokens no longer in all than
\* its index.
C29_StatesInRange ==
    \A state \in StatesOfRun :
        /\ 0 <= state.index
        /\ state.index <= Len(state.target)
        /\ JoinedLength(state.result) <= state.index

\* a run has returned a result at the end of its target whose tokens are the
\* whole target, and has memoised an error with tokens
C29_Witness ==
    /\ phase = "done"
    /\ run.mode = "run"
    /\ \E state \in Elements(returned) :
           /\ ~state.isError
           /\ state.index = Len(state.target)
           /\ JoinedLength(state.result) = Len(state.target)
           /\ Len(state.result) >= 2
    /\ \E state \in StatesOfRun : state.isError /\ state.result # <<>>


\* a constructor of a state was called
ConstructorCalled ==
    /\ run.mode \in {"new ParseResult", "new ParseError"}
    /\ phase \in {"done", "fault"}

\* C30: new ParseResult and new ParseError throw a RangeError exactly when the
\* index is greater than the length of the target or the tokens together are
\* longer than the index, and return the state otherwise; so every state
\* constructed is within both bounds.
C30_ConstructorRejects ==
    ConstructorCalled =>
        LET state == run.state
            violating == \/ state.index > Len(state.target)
                         \/ JoinedLength(state.result) > state.index
        IN  IF violating THEN phase = "fault" /\ fault = "RangeError"
            ELSE phase = "done" /\ returned = <<state>>


\* two states of the same kind and target were constructed
TwoConstructed ==
    /\ run.mode \in {"new ParseResult", "new ParseError"}
    /\ run.number = 2
    /\ phase = "done"

\* C31: the identity of a state is its target, '_' and its index, followed by
\* '_' and the identity of its data or error when that identity is not empty;
\* two states of the same kind and target have the same identity exactly when
\* they have the same index and semantic values of the same identity, whatever
\* their tokens and the values of their data.
C31_IdentityOfState ==
    /\ ConstructorCalled =>
           Identity(run.state) =
               Join(run.state.target) \o "_" \o ToString(run.state.index)
                   \o (IF run.state.sem.identity = "" THEN ""
                       ELSE "_" \o run.state.sem.identity)
    /\ TwoConstructed =>
           (Identity(fresh.state) = Identity(run.state)
               <=> /\ fresh.state.index = run.state.index
                   /\ fresh.state.sem.identity = run.state.sem.identity)

\* two results of the same identity were constructed, one with a token and one
\* without, their data of different values
C31_Witness ==
    /\ TwoConstructed
    /\ run.mode = "new ParseResult"
    /\ Identity(fresh.state) = Identity(run.state)
    /\ fresh.state.result # run.state.result
    /\ fresh.state.sem # run.state.sem

\* two results at the same index and of different identities were constructed
C31_WitnessDiffer ==
    /\ TwoConstructed
    /\ run.mode = "new ParseResult"
    /\ fresh.state.index = run.state.index
    /\ Identity(fresh.state) # Identity(run.state)


\* the driver starts to execute a work item
ExecutesWorkItem == calls = <<>> /\ calls' # <<>>

\* the generator returns (no call in progress has thrown)
GeneratorEnds ==
    /\ calls = <<>>
    /\ phase \in {"running", "suspended"}
    /\ phase' \in {"done", "fault"}

\* C32: the driver starts to execute a work item only when every state
\* collected has been yielded and the host has asked for the next one, and the
\* generator ends only with an empty parse stack and every state collected
\* yielded.
C32_LazyDriver ==
    [][/\ ExecutesWorkItem =>
           /\ phase = "running"
           /\ Len(yielded) = Len(results)
           /\ resultsCount = Len(results)
       /\ GeneratorEnds =>
           /\ parseStack = <<>>
           /\ yielded = results
           /\ resultsCount = Len(results)]_vars

\* the generator is suspended at the second state collected, with work items
\* pending that it has not executed
C32_Witness ==
    /\ phase = "suspended"
    /\ parseStack # <<>>
    /\ calls = <<>>
    /\ Len(yielded) = 2
    /\ resultsCount = 1


\* the memo entries of the symbol parsers, each with a continuation subscribed
\* to it and a result published to it
Subscriptions ==
    UNION {UNION {{Delivery(p, key, memo[p].memotable[key].continuations[c],
                            memo[p].memotable[key].results[r])
                      : c \in 1..Len(memo[p].memotable[key].continuations),
                        r \in 1..Len(memo[p].memotable[key].results)}
                  : key \in DOMAIN memo[p].memotable} : p \in 1..Len(memo)}

\* C33: within a run every continuation subscribed to a memo entry is called
\* once with each result published to the entry (results of distinct
\* identities), by the replay at its subscription or by the publication: never
\* twice, and once the run has returned, once.
C33_DeliveredExactlyOnce ==
    (run.mode \in {"run", "asyncRun"} /\ run.number = 1) =>
        /\ \A i, j \in 1..Len(delivered) : delivered[i] = delivered[j] => i = j
        /\ phase = "done" =>
               Subscriptions = {delivered[i] : i \in {n \in 1..Len(delivered) :
                                                        "result" \in DOMAIN delivered[n]}}


\* the raw transformers generate() has executed: parser and identity of the state
Executions == SelectSeq(delivered, LAMBDA call : "raw" \in DOMAIN call)

\* a parser is called with a state of an identity it has an entry for
Hit ==
    /\ Executing("transformer")
    /\ memo[Head(calls).parser].currentTarget = Head(calls).state.target
    /\ Identity(Head(calls).state) \in DOMAIN memo[Head(calls).parser].memotable

\* C34: within a run generate() executes the raw transformer of a SymbolParser
\* instance at most once for each identity of its input state; a call of the
\* instance with a state of an identity it has an entry for leaves the parse
\* stack as it is, subscribes the continuation and replays.
C34_RawOncePerIdentity ==
    /\ [](run.number = 1 =>
             \A i, j \in 1..Len(Executions) : Executions[i] = Executions[j] => i = j)
    /\ [][(run.number = 1 /\ Hit) =>
              LET parser == Head(calls).parser
                  key == Identity(Head(calls).state)
              IN  /\ parseStack' = parseStack
                  /\ delivered' = delivered
                  /\ calls' # <<>>
                  /\ Head(calls').op = "replay"
                  /\ memo'[parser].memotable[key].continuations =
                         Append(memo[parser].memotable[key].continuations,
                                Head(calls).continuation)]_vars

\* a parser whose raw transformer was executed for a state is called again with
\* a state of that identity, and replays a result
C34_Witness ==
    /\ Executing("replay")
    /\ Head(calls).pos = 2
    /\ \E n \in 1..Len(Executions) :
           /\ Executions[n].parser = Head(calls).parser
           /\ Executions[n].key = Head(calls).key


\* the transformer and the identity of the state of a work item
Enqueued(item) == [wrapped |-> item.wrapped, parser |-> item.parser, key |-> Identity(item.state)]

\* C35: within a run no two work items pending on the parse stack have the same
\* transformer and states of the same identity, and no pending work item has
\* the raw transformer and the identity of a work item executed before: a
\* transformer is enqueued at most once with a state of one identity.
C35_EnqueuedOnce ==
    run.number = 1 =>
        /\ \A i, j \in 1..Len(parseStack) :
               Enqueued(parseStack[i]) = Enqueued(parseStack[j]) => i = j
        /\ \A i \in 1..Len(parseStack), n \in 1..Len(Executions) :
               ~parseStack[i].wrapped =>
                   Execution(parseStack[i].parser, parseStack[i].state) # Executions[n]

\* two work items are pending with states of the same identity, for the raw
\* transformers of two parsers, after other work items were executed
C35_Witness ==
    /\ \E i, j \in 1..Len(parseStack) :
           /\ i # j
           /\ ~parseStack[i].wrapped
           /\ ~parseStack[j].wrapped
           /\ Identity(parseStack[i].state) = Identity(parseStack[j].state)
           /\ parseStack[i].state.index > 0
    /\ Len(Executions) >= 2

\* the deliveries to the continuation of generate(), in the order they were made
Collected ==
    SelectSeq(delivered, LAMBDA call : "result" \in DOMAIN call /\ call.continuation.kind = "collect")

\* the raw transformer of parser has executed for the state of identity key
Executed(parser, key) ==
    \E n \in 1..Len(delivered) : delivered[n] = [parser |-> parser, key |-> key, raw |-> TRUE]

\* C38: the driver executes the work item pushed last: when the raw transformer
\* of a parser of alternatives([p1, ..., pn]) executes for the state the raw
\* transformer of the alternatives has executed for, those of the parsers after
\* it have executed for that state, pn first and p1 last; and the states are
\* yielded in the order they were published to the continuation of generate().
C38_StackIsLIFO ==
    run.number = 1 =>
        /\ (delivered # <<>> /\ "raw" \in DOMAIN delivered[Len(delivered)]) =>
               LET last == delivered[Len(delivered)]
               IN  \A A \in {n \in 1..Len(Grammar) : Grammar[n].kind = "alternatives"} :
                   \A i \in 1..Len(Grammar[A].parsers) :
                       (Grammar[A].parsers[i] = last.parser /\ Executed(A, last.key)) =>
                           \A j \in (i + 1)..Len(Grammar[A].parsers) :
                               Executed(Grammar[A].parsers[j], last.key)
        /\ Len(yielded) <= Len(results)
        /\ yielded = SubSeq(results, 1, Len(yielded))
        /\ calls = <<>> =>
               /\ Len(results) = Len(Collected)
               /\ \A n \in 1..Len(results) : Identity(results[n]) = Collected[n].result

\* both parsers of an alternatives have executed for its state and two states
\* were yielded
C38_Witness ==
    /\ run.number = 1
    /\ Len(yielded) = 2
    /\ \E n \in 1..Len(delivered) :
           /\ "raw" \in DOMAIN delivered[n]
           /\ Parser(delivered[n].parser).kind = "alternatives"
           /\ \A i \in 1..Len(Parser(delivered[n].parser).parsers) :
                  Executed(Parser(delivered[n].parser).parsers[i], delivered[n].key)

\* C39: generate() drained by the caller ends on every target, for the left
\* recursive L, the right recursive R, E that reaches L behind empty, the
\* ambiguous S, N that has no base case, the unit cycle U, the cycle of empty
\* matches X, and P and Q that are recursive through each other: the run returns
\* or throws, and unless the breadth limit was exceeded the parse stack is empty
\* and no call is in progress.
C39_GenerateTerminates ==
    /\ <>(phase \in {"done", "fault"})
    /\ [](phase \in {"done", "fault"} =>
              (fault # "breadth" => parseStack = <<>> /\ calls = <<>>))

\* the run of the unit cycle U on a has ended with both of its states yielded
C39_Witness ==
    /\ phase \in {"done", "fault"}
    /\ run.parser = U
    /\ run.target = <<"a">>
    /\ ~breadth.finite
    /\ Len(yielded) = 2
    /\ parseStack = <<>>

\* C40: of two generators on the same instances that the caller advances in
\* turn, none throws, and when both have returned, two generators of the same
\* target have yielded the same states, for the same target and for different
\* ones.
C40_GeneratorsIndependent ==
    (run.mode = "generate" /\ "yielded" \in DOMAIN fresh) =>
        /\ phase # "fault"
        /\ fresh.phase # "fault"
        /\ (phase = "done" /\ fresh.phase = "done" /\ run.target = fresh.run.target) =>
               yielded = fresh.yielded

====
